---- MODULE Spec2Model ----
(***************************************************************************)
(* Model of the octant shadowcast visibility engine of veil                *)
(* (src/observation/shadowcast.rs) and of the grid it reads.               *)
(*                                                                         *)
(* Numbers.  Slopes are f64 in the source; here they are exact rationals   *)
(* [num, den] with den > 0.  Every slope the engine computes is a quotient *)
(* of two half-integer differences, so doubling both gives odd integers.   *)
(* Positions that the source keeps as f64 with a .5 fraction (cell centres,*)
(* depth offsets) are kept doubled (suffix 2).  Visibility and opacity are *)
(* f64 in [0,1]; here they are integers in units of 1/VisOne.              *)
(***************************************************************************)
EXTENDS Integers, Naturals, Sequences, FiniteSets, TLC

\* ------------------------------------------------------------------ bounds
MaxSize == 3          \* largest width/height of a world of Spec
MaxDist == 3          \* largest view distance of Spec
MaxClearSize == 5     \* largest width/height of an all-transparent world (SpecClear)
MaxClearDist == 5     \* largest view distance of SpecClear
MaxAdjSize == 5       \* largest side of the square worlds of SpecAdjacent
MaxAdjDist == 3       \* largest view distance of SpecAdjacent
MaxMetaSize == 2      \* largest width/height of a world of SpecMeta
MaxMetaDist == 2      \* largest view distance of SpecMeta
MaxRotSize == 3       \* largest width/height of a world of SpecRot
MaxRotDist == 3       \* largest view distance of SpecRot
MaxGridSize == 3       \* largest width and height of a world of SpecGrids
MaxGridDist == 3       \* largest view distance of SpecGrids
MaxPairSize == 4      \* largest width and height of a world of SpecPair
MaxPairDist == 4      \* largest view distance of SpecPair
MaxDeepWidth == 7     \* largest width of a world of SpecDeep
MaxDeepHeight == 6    \* largest height of a world of SpecDeep
MaxDeepDist == 7      \* largest view distance of SpecDeep
MaxReuseSize == 3     \* largest width and height of a world of SpecReuse
MaxReuseDist == 2     \* largest view distance of SpecReuse
MaxWideSize == 3      \* largest width and height of a world of SpecWide
MaxWideDist == 2      \* largest of the small view distances of SpecWide
MaxVisSize == 3       \* largest width and height of a world of SpecVis
MaxVisDist == 3       \* largest view distance of SpecVis
MaxReactions == 3     \* most reactions the policy queues during one commit (SpecTurn)
MaxStale == 2         \* most reactions left in the list by an earlier turn (SpecTurn)
MaxTurnTime == 1      \* latest time at which a turn of SpecTurn starts
MaxStaticSize == 4    \* largest width and height of a StaticGrid (SpecStatic, SpecIter)
MaxIndex == 3         \* largest of the small index components of SpecStatic
MaxYield == 20        \* most coordinates one CoordIter is asked for (SpecIter)
MantissaBits == 4     \* significant bits of the floating point numbers of SpecRound (f64: 53)
MaxRoundAbs == 4      \* SpecRound rounds the numbers of -MaxRoundAbs..MaxRoundAbs

\* --------------------------------------------------------------- constants
VisOne == 5           \* the visibility 1.0 of the seed frame, in model units (1 unit = 0.2)
NUM_OCTANTS == 8

\* Option::None, of a name and of a record
None == "None"
Nothing == [none |-> TRUE]

\* ------------------------------------------------------------- direction.rs
Cardinals == {"North", "East", "South", "West"}

CardinalVector(c) ==
    CASE c = "North" -> <<0, -1>>
      [] c = "East"  -> <<1, 0>>
      [] c = "South" -> <<0, 1>>
      [] c = "West"  -> <<-1, 0>>

CardinalOpposite(c) ==
    CASE c = "North" -> "South"
      [] c = "East"  -> "West"
      [] c = "South" -> "North"
      [] c = "West"  -> "East"

from_cardinals(a, b) ==
    CASE a = "North" -> (CASE b = "East" -> "NorthEast" [] b = "West" -> "NorthWest" [] OTHER -> None)
      [] a = "East"  -> (CASE b = "North" -> "NorthEast" [] b = "South" -> "SouthEast" [] OTHER -> None)
      [] a = "South" -> (CASE b = "East" -> "SouthEast" [] b = "West" -> "SouthWest" [] OTHER -> None)
      [] a = "West"  -> (CASE b = "North" -> "NorthWest" [] b = "South" -> "SouthWest" [] OTHER -> None)

\* ----------------------------------------------------------- vector_index
\* VectorIndex::from_card: the axis a cardinal direction runs along (1 = x, 2 = y).
VectorIndexFromCard(c) == IF c \in {"East", "West"} THEN 1 ELSE 2

\* VectorIndex::get
VectorIndexGet(vi, v) == v[vi]

\* VectorIndex::set
VectorIndexSet(vi, v, val) == [v EXCEPT ![vi] = val]

\* ---------------------------------------------------------------- numbers
Abs(n) == IF n < 0 THEN -n ELSE n
Max(a, b) == IF a >= b THEN a ELSE b
Min(a, b) == IF a <= b THEN a ELSE b

Rat(n, d) == [num |-> n, den |-> d]
RatLeq(a, b) == a.num * b.den <= b.num * a.den
RatLess(a, b) == a.num * b.den < b.num * a.den
RatEq(a, b) == a.num * b.den = b.num * a.den
RatZero == Rat(0, 1)
RatOne == Rat(1, 1)

\* x.floor() for the rational x = r.num / r.den, r.den > 0
Floor(r) == r.num \div r.den
\* x.ceil()
Ceil(r) == -((-r.num) \div r.den)

\* mutant: ExclusiveFloor rounds like Floor
RoundTypeRound_AlwaysFloor(rt, r) == Floor(r)

\* RoundType::round
RoundTypeRound(rt, r) ==
    IF rt = "Floor" THEN Floor(r)
    ELSE Ceil(Rat(r.num - r.den, r.den))

\* ---------------------------------------------------------- f64 arithmetic
\* A floating point number is kept as the integer n of its value n / F64One;
\* it has at most MantissaBits significant bits.
RECURSIVE Pow2(_)
Pow2(k) == IF k = 0 THEN 1 ELSE 2 * Pow2(k - 1)

RECURSIVE BitLength(_)
BitLength(a) == IF a = 0 THEN 0 ELSE 1 + BitLength(a \div 2)

\* binary places below the unit: numbers as small as a quarter of the last
\* place of 1.0 exist (an f64 has numbers as small as 2^-1074)
FracBits == MantissaBits + 2
F64One == Pow2(FracBits)

\* the result of an arithmetic operation whose exact value is n / F64One:
\* the nearest number of MantissaBits bits, a tie going to the even mantissa
F64Round(n) ==
    LET a == Abs(n)
        e == BitLength(a)
    IN  IF e <= MantissaBits THEN n
        ELSE LET sh == e - MantissaBits
                 q == a \div Pow2(sh)
                 r == a % Pow2(sh)
                 half == Pow2(sh - 1)
                 m == (IF r > half \/ (r = half /\ q % 2 = 1) THEN q + 1 ELSE q) * Pow2(sh)
             IN  IF n < 0 THEN -m ELSE m

\* the floating point numbers of magnitude at most MaxRoundAbs
F64Values == { n \in (-(MaxRoundAbs * F64One))..(MaxRoundAbs * F64One) : F64Round(n) = n }

\* RoundType::round on an f64: x.floor() as i32, ((x - 1.0).ceil()) as i32;
\* floor, ceil and the cast are exact, the subtraction is rounded
RoundTypeRoundF64(rt, n) ==
    IF rt = "Floor" THEN n \div F64One
    ELSE -((-F64Round(n - F64One)) \div F64One)

\* ------------------------------------------------------- integer widths
\* An unsigned integer of n bytes is kept as its n bytes, lowest first.
ToBytes(v, n) == [i \in 1..n |-> IF i > 4 THEN 0 ELSE (v \div Pow2(8 * (i - 1))) % 256]

\* 2^k in n bytes
Pow2Bytes(k, n) == [i \in 1..n |-> IF i = (k \div 8) + 1 THEN Pow2(k % 8) ELSE 0]

\* the largest number of n bytes; as a signed number, -1
MaxBytes(n) == [i \in 1..n |-> 255]

\* the number of a byte sequence that is below 2^31
BytesToInt(a) == a[1] + a[2] * Pow2(8) + a[3] * Pow2(16) + a[4] * Pow2(24)

RECURSIVE BytesLessFrom(_, _, _)
BytesLessFrom(a, b, i) ==
    IF i = 0 THEN FALSE
    ELSE IF a[i] /= b[i] THEN a[i] < b[i]
    ELSE BytesLessFrom(a, b, i - 1)

\* a < b for unsigned numbers of the same width
BytesLess(a, b) == BytesLessFrom(a, b, Len(a))

\* the sign bit of a two's complement number
BytesNegative(a) == a[Len(a)] >= 128

RECURSIVE AddColumns(_, _, _, _, _)
AddColumns(a, b, n, k, carry) ==
    IF k > n THEN <<carry>>
    ELSE LET t == a[k] + b[k] + carry
         IN  <<t % 256>> \o AddColumns(a, b, n, k + 1, t \div 256)

\* a + b in n bytes, the carry out dropped (wrapping_add)
WrappingAdd(a, b, n) == SubSeq(AddColumns(a, b, n, 1, 0), 1, n)

\* a + b does not fit n bytes: "attempt to add with overflow"
AddOverflows(a, b, n) == AddColumns(a, b, n, 1, 0)[n + 1] /= 0

\* the same number in m >= Len(a) bytes
Widen(a, m) == [i \in 1..m |-> IF i <= Len(a) THEN a[i] ELSE 0]

RECURSIVE ColumnSum(_, _, _, _)
ColumnSum(a, b, k, i) ==
    IF i > k THEN 0 ELSE a[i] * b[k + 1 - i] + ColumnSum(a, b, k, i + 1)

RECURSIVE MulColumns(_, _, _, _, _)
MulColumns(a, b, n, k, carry) ==
    IF k > n THEN << >>
    ELSE LET t == carry + ColumnSum(a, b, k, 1)
         IN  <<t % 256>> \o MulColumns(a, b, n, k + 1, t \div 256)

\* a * b in n bytes, the bytes above them dropped (wrapping_mul)
WrappingMul(a, b, n) == MulColumns(a, b, n, 1, 0)

\* a * b does not fit n bytes: "attempt to multiply with overflow"
MulOverflows(a, b, n) ==
    LET full == WrappingMul(Widen(a, 2 * n), Widen(b, 2 * n), 2 * n)
    IN  \E i \in (n + 1)..(2 * n) : full[i] /= 0

\* u32 as i32: the same 32 bits read as two's complement
AsI32(a) ==
    (IF a[4] >= 128 THEN a[4] - 256 ELSE a[4]) * Pow2(24) + a[3] * Pow2(16) + a[2] * Pow2(8) + a[1]

\* distance * distance panics in a build with overflow checks
DistanceSquaredOverflows(d) == MulOverflows(ToBytes(d, 4), ToBytes(d, 4), 4)

\* (distance * distance) as i32, the product taken in u32
DistanceSquared(d) == AsI32(WrappingMul(ToBytes(d, 4), ToBytes(d, 4), 4))

\* twice cell_centre(coord)
cell_centre2(coord) == <<2 * coord[1] + 1, 2 * coord[2] + 1>>

cell_corner(coord, dir) ==
    CASE dir = "NorthEast" -> <<coord[1] + 1, coord[2]>>
      [] dir = "SouthEast" -> <<coord[1] + 1, coord[2] + 1>>
      [] dir = "SouthWest" -> <<coord[1], coord[2] + 1>>
      [] dir = "NorthWest" -> <<coord[1], coord[2]>>

\* ------------------------------------------------------------------ Octant
\* mutant: the same rounding whichever way the lateral index steps
OctantNew_SameRounding(card_depth_dir, card_lateral_dir) ==
    LET depth_step == VectorIndexGet(VectorIndexFromCard(card_depth_dir), CardinalVector(card_depth_dir))
        lateral_step == VectorIndexGet(VectorIndexFromCard(card_lateral_dir), CardinalVector(card_lateral_dir))
    IN  [ depth_idx |-> VectorIndexFromCard(card_depth_dir),
          lateral_idx |-> VectorIndexFromCard(card_lateral_dir),
          depth_step |-> depth_step,
          lateral_step |-> lateral_step,
          opacity_increase_corner |-> from_cardinals(card_depth_dir, CardinalOpposite(card_lateral_dir)),
          opacity_decrease_corner |-> from_cardinals(CardinalOpposite(card_depth_dir),
                                                     CardinalOpposite(card_lateral_dir)),
          round_start |-> "Floor",
          round_end |-> "ExclusiveFloor" ]

OctantNew(card_depth_dir, card_lateral_dir) ==
    LET depth_step == VectorIndexGet(VectorIndexFromCard(card_depth_dir), CardinalVector(card_depth_dir))
        lateral_step == VectorIndexGet(VectorIndexFromCard(card_lateral_dir), CardinalVector(card_lateral_dir))
    IN  [ depth_idx |-> VectorIndexFromCard(card_depth_dir),
          lateral_idx |-> VectorIndexFromCard(card_lateral_dir),
          depth_step |-> depth_step,
          lateral_step |-> lateral_step,
          opacity_increase_corner |-> from_cardinals(card_depth_dir, CardinalOpposite(card_lateral_dir)),
          opacity_decrease_corner |-> from_cardinals(CardinalOpposite(card_depth_dir),
                                                     CardinalOpposite(card_lateral_dir)),
          round_start |-> IF lateral_step = 1 THEN "Floor" ELSE "ExclusiveFloor",
          round_end |-> IF lateral_step = 1 THEN "ExclusiveFloor" ELSE "Floor" ]

\* mutant: depth displacement over lateral displacement
compute_slope_Inverted(octant, from2, to) ==
    Rat(Abs(2 * VectorIndexGet(octant.depth_idx, to) - VectorIndexGet(octant.depth_idx, from2)),
        Abs(2 * VectorIndexGet(octant.lateral_idx, to) - VectorIndexGet(octant.lateral_idx, from2)))

\* Octant::compute_slope, from = twice the eye centre, to = a cell corner
compute_slope(octant, from2, to) ==
    Rat(Abs(2 * VectorIndexGet(octant.lateral_idx, to) - VectorIndexGet(octant.lateral_idx, from2)),
        Abs(2 * VectorIndexGet(octant.depth_idx, to) - VectorIndexGet(octant.depth_idx, from2)))

\* OrdinalDirection::vector
OrdinalVector(o) ==
    CASE o = "NorthEast" -> <<1, -1>>
      [] o = "SouthEast" -> <<1, 1>>
      [] o = "SouthWest" -> <<-1, 1>>
      [] o = "NorthWest" -> <<-1, -1>>

\* Octant::new panics: assert!(lateral_step == -1) in the else branch, or
\* .expect("Failed to combine directions") on a None
OctantNewPanics(card_depth_dir, card_lateral_dir) ==
    LET lateral_step == VectorIndexGet(VectorIndexFromCard(card_lateral_dir), CardinalVector(card_lateral_dir))
    IN  \/ lateral_step /= 1 /\ lateral_step /= -1
        \/ from_cardinals(card_depth_dir, CardinalOpposite(card_lateral_dir)) = None
        \/ from_cardinals(CardinalOpposite(card_depth_dir), CardinalOpposite(card_lateral_dir)) = None

\* mutant: the second and third octants of the table change places
OctantDirs_Swapped ==
    << <<"West", "South">>, <<"South", "East">>, <<"South", "West">>, <<"East", "South">>,
       <<"East", "North">>, <<"North", "East">>, <<"North", "West">>, <<"West", "North">> >>

\* ShadowcastEnv::new, the octant table
OctantDirs ==
    << <<"West", "South">>, <<"South", "West">>, <<"South", "East">>, <<"East", "South">>,
       <<"East", "North">>, <<"North", "East">>, <<"North", "West">>, <<"West", "North">> >>

Octants == [i \in 1..NUM_OCTANTS |-> OctantNew(OctantDirs[i][1], OctantDirs[i][2])]

\* ------------------------------------------------------------------- Frame
FrameNew(depth, min_slope, max_slope, visibility) ==
    [depth |-> depth, min_slope |-> min_slope, max_slope |-> max_slope, visibility |-> visibility]

\* ------------------------------------------------------------------- world
Cells(w, h) == (0..(w - 1)) \X (0..(h - 1))

\* SpatialHashTable::get: the cell at a coordinate, None outside width x height
WorldGet(wd, coord) ==
    IF coord[1] >= 0 /\ coord[1] < wd.width /\ coord[2] >= 0 /\ coord[2] < wd.height
    THEN [opacity_total |-> wd.opacity[coord]]
    ELSE Nothing

\* ------------------------------------------------------------------ Limits
LimitsNew(e, wd, octant) ==
    LET world_limits == <<wd.width - 1, wd.height - 1>>
    IN  [ depth_min |-> 0,
          depth_max |-> VectorIndexGet(octant.depth_idx, world_limits),
          lateral_min |-> 0,
          lateral_max |-> VectorIndexGet(octant.lateral_idx, world_limits),
          eye_centre2 |-> cell_centre2(e),
          eye_lateral_pos2 |-> VectorIndexGet(octant.lateral_idx, cell_centre2(e)),
          eye_depth_idx |-> VectorIndexGet(octant.depth_idx, e) ]

\* -------------------------------------------------------------------- Scan
\* slope >= 0.0 && slope <= 1.0; a zero denominator is the NaN or infinity of
\* a division by zero, for which one of the comparisons is false
SlopeInUnit(s) == s.den > 0 /\ RatLeq(RatZero, s) /\ RatLeq(s, RatOne)

\* eye_lateral_pos + slope * depth_offset * lateral_step_float, with
\* eye_lateral_pos and depth_offset given doubled
LateralAt(eye_lateral_pos2, slope, depth_offset2, lateral_step) ==
    Rat(eye_lateral_pos2 * slope.den + lateral_step * slope.num * depth_offset2, 2 * slope.den)

ScanStart(lim, fr, octant) ==
    RoundTypeRound(octant.round_start,
                   LateralAt(lim.eye_lateral_pos2, fr.min_slope, 2 * fr.depth - 1, octant.lateral_step))

ScanEndUnclipped(lim, fr, octant) ==
    RoundTypeRound(octant.round_end,
                   LateralAt(lim.eye_lateral_pos2, fr.max_slope, 2 * fr.depth + 1, octant.lateral_step))

\* mutant: rows past the view distance are scanned too
ScanNew_NoDistanceCheck(lim, fr, octant, dist) ==
    LET depth_abs_idx == lim.eye_depth_idx + fr.depth * octant.depth_step
        abs_scan_start_idx == ScanStart(lim, fr, octant)
        abs_scan_end_idx == ScanEndUnclipped(lim, fr, octant)
    IN  IF depth_abs_idx < lim.depth_min \/ depth_abs_idx > lim.depth_max THEN Nothing
        ELSE IF abs_scan_start_idx < lim.lateral_min \/ abs_scan_start_idx > lim.lateral_max
             THEN Nothing
             ELSE [ depth_idx |-> depth_abs_idx,
                    start_lateral_idx |-> abs_scan_start_idx,
                    end_lateral_idx |-> Min(Max(abs_scan_end_idx, lim.lateral_min),
                                            lim.lateral_max) ]

\* Scan::new after its assertions: None or the row to scan
ScanNew(lim, fr, octant, dist) ==
    IF fr.depth > dist THEN Nothing
    ELSE LET depth_abs_idx == lim.eye_depth_idx + fr.depth * octant.depth_step
             abs_scan_start_idx == ScanStart(lim, fr, octant)
             abs_scan_end_idx == ScanEndUnclipped(lim, fr, octant)
         IN  IF depth_abs_idx < lim.depth_min \/ depth_abs_idx > lim.depth_max THEN Nothing
             ELSE IF abs_scan_start_idx < lim.lateral_min \/ abs_scan_start_idx > lim.lateral_max
                  THEN Nothing
                  ELSE [ depth_idx |-> depth_abs_idx,
                         start_lateral_idx |-> abs_scan_start_idx,
                         end_lateral_idx |-> Min(Max(abs_scan_end_idx, lim.lateral_min),
                                                 lim.lateral_max) ]


\* mutant: the loop is to stop one index before the end of the row
FinalIdx_BeforeEnd(sc, octant) == sc.end_lateral_idx - octant.lateral_step

\* final_idx of scan: the index at which the row loop stops
FinalIdx(sc, octant) == sc.end_lateral_idx + octant.lateral_step

\* the coordinate of lateral index i in the row of sc
ScanCoord(sc, octant, i) ==
    VectorIndexSet(octant.lateral_idx,
                   VectorIndexSet(octant.depth_idx, <<0, 0>>, sc.depth_idx), i)

\* mutant: the cutoff includes the cells at exactly the distance
Reportable_Inclusive(coord, e, dist) ==
    LET between == <<coord[1] - e[1], coord[2] - e[2]>>
        distance_squared == between[1] * between[1] + between[2] * between[2]
    IN  distance_squared <= DistanceSquared(dist)

\* "report the cell as visible": the distance test of scan
Reportable(coord, e, dist) ==
    LET between == <<coord[1] - e[1], coord[2] - e[2]>>
        distance_squared == between[1] * between[1] + between[2] * between[2]
    IN  distance_squared < DistanceSquared(dist)

\* mutant: the difference is not held at 0
CurrentVisibility_Unclamped(frame_visibility, opacity_total) == frame_visibility - opacity_total

\* "compute current visibility"
CurrentVisibility(frame_visibility, opacity_total) == Max(frame_visibility - opacity_total, 0)

\* mutant: the corners of a rise and of a fall of visibility exchanged
TransitionCorner_Swapped(octant, current_visibility, prev_visibility) ==
    IF current_visibility > prev_visibility THEN octant.opacity_increase_corner
    ELSE IF current_visibility < prev_visibility THEN octant.opacity_decrease_corner
    ELSE None

\* the corner the sightline of a visibility change passes through, None when unchanged
TransitionCorner(octant, current_visibility, prev_visibility) ==
    IF current_visibility > prev_visibility THEN octant.opacity_decrease_corner
    ELSE IF current_visibility < prev_visibility THEN octant.opacity_increase_corner
    ELSE None

\* mutant: the later metadata replaces the earlier
Merge_Overwrite(a, b) == b

\* ObservationMetadata's |=
Merge(a, b) == a \cup b

\* ------------------------------------------------------------------- state
VARIABLES
    world,                \* the SpatialHashTable: [width, height, opacity]
    eye, distance, time,  \* the arguments of the running observe call
    sink_flags,           \* the metadata flags the knowledge sink can return
    pc,                   \* position in observe
    octant_i,             \* index of the octant being processed (1..8)
    stack,                \* env.stack
    limits,               \* Limits of the octant being processed
    frame,                \* the frame popped last
    scan,                 \* the Scan of that frame
    idx, first_iteration, previous_opaque, previous_visibility, min_slope,
                          \* the locals of scan()
    scan_metadata,        \* metadata of scan()
    octant_metadata,      \* metadata of detect_visible_area_octant()
    metadata,             \* metadata of observe()
    calls,                \* the calls the knowledge sink received, in order
    returned,             \* union of the metadata update_cell returned
    visited,              \* the cells the row loops visited, in order
    nframes,              \* number of frames popped in this call
    ncalls,               \* number of observe calls made on this env
    previous_reported,    \* the coordinates the previous call reported
    turns,                \* quarter turns between the previous call's world and this one's
    previous_calls,       \* the calls the previous call made on the sink
    x,                    \* the f64 given to RoundType::round
    rounded,              \* the RoundType used and the i32 returned, or Nothing
    entity,                \* TurnEnv: what the stores hold for entity_id
    reactions,             \* TurnEnv.reactions
    change,                \* TurnEnv.change
    entity_store,          \* TurnEnv.entity_store: the changes committed, in order
    spatial_hash,          \* TurnEnv.spatial_hash: the updates received, in order
    turn_time,             \* TurnEnv.time
    turn_pc,               \* position in take_turn
    resolution,            \* what take_turn returned, or Nothing
    entry,                 \* the state take_turn was entered with
    npushed,               \* reactions queued since take_turn was entered
    processed,             \* the reactions the commit loop has processed, in order
    grid,                  \* a StaticGrid
    index,                 \* the index given to get, get_mut or contains
    got,                   \* the operation called and what it returned, or Nothing
    coord_iter,            \* a CoordIter of the grid
    yielded,               \* what next() has returned so far, in order
    iter_done              \* next() has returned None

vars == << world, eye, distance, time, sink_flags, pc, octant_i, stack, limits, frame, scan,
           idx, first_iteration, previous_opaque, previous_visibility, min_slope,
           scan_metadata, octant_metadata, metadata, calls, returned, visited, nframes,
           ncalls, previous_reported, turns, previous_calls, x, rounded,
           entity, reactions, change, entity_store, spatial_hash, turn_time, turn_pc,
           resolution, entry, npushed, processed,
           grid, index, got, coord_iter, yielded, iter_done >>

\* the variables of observe and of its caller
observe_vars == << world, eye, distance, time, sink_flags, pc, octant_i, stack, limits, frame, scan,
                   idx, first_iteration, previous_opaque, previous_visibility, min_slope,
                   scan_metadata, octant_metadata, metadata, calls, returned, visited, nframes,
                   ncalls, previous_reported, turns, previous_calls >>
round_vars == << x, rounded >>
\* the variables of the units modelled apart from observe
turn_vars == << entity, reactions, change, entity_store, spatial_hash, turn_time, turn_pc,
                resolution, entry, npushed, processed >>
grid_vars == << grid, index, got, coord_iter, yielded, iter_done >>
unit_vars == << round_vars, turn_vars, grid_vars >>

args == << world, eye, distance, time, sink_flags, ncalls, previous_reported, turns,
           previous_calls, unit_vars >>
scan_locals == << idx, first_iteration, previous_opaque, previous_visibility, min_slope, scan_metadata >>

NoFrame == FrameNew(0, RatZero, RatZero, 0)
NoScan == [depth_idx |-> 0, start_lateral_idx |-> 0, end_lateral_idx |-> 0]
NoLimits == LimitsNew(<<0, 0>>, [width |-> 1, height |-> 1], Octants[1])

\* no number has been rounded
RoundIdle == x = 0 /\ rounded = Nothing

\* the state after ShadowcastEnv::new(), with the arguments of the first call
EnvNew(w, e, d, flags) ==
    /\ world = w /\ eye = e /\ distance = d /\ time = 0 /\ sink_flags = flags
    /\ pc = "idle" /\ octant_i = 0 /\ stack = << >>
    /\ limits = NoLimits /\ frame = NoFrame /\ scan = NoScan
    /\ idx = 0 /\ first_iteration = TRUE /\ previous_opaque = FALSE
    /\ previous_visibility = -VisOne /\ min_slope = RatZero
    /\ scan_metadata = {} /\ octant_metadata = {} /\ metadata = {}
    /\ calls = << >> /\ returned = {} /\ visited = << >> /\ nframes = 0
    /\ ncalls = 0 /\ previous_reported = {} /\ turns = 0 /\ previous_calls = << >>

\* no observe call is in progress or to come
EnvIdle == EnvNew([width |-> 0, height |-> 0, opacity |-> << >>], <<0, 0>>, 0, {})

\* a TurnEnv for entity en, with the reaction list rs an earlier turn left
\* and the time t
TurnEnvNew(en, rs, t) ==
    /\ entity = en /\ reactions = rs /\ change = {} /\ entity_store = << >>
    /\ spatial_hash = << >> /\ turn_time = t /\ turn_pc = "idle" /\ resolution = None
    /\ entry = [time |-> t, reactions |-> rs, entity_store |-> << >>, spatial_hash |-> << >>]
    /\ npushed = 0 /\ processed = << >>

\* no turn is taken
TurnIdle == TurnEnvNew([player |-> FALSE, knowledge |-> FALSE, behaviour |-> FALSE], << >>, 0)

\* ------------------------------------------------------ grid/static_grid.rs
\* a usize or isize has 8 bytes
UsizeBytes == 8

Usize(v) == ToBytes(v, UsizeBytes)

\* StaticGrid::new_default / new_copy: size items; each item is given the
\* position it is stored at, to tell the cells apart
StaticGridNew(width, height) ==
    [width |-> width, height |-> height, size |-> width * height,
     items |-> [i \in 1..(width * height) |-> i - 1]]

\* CoordIter::new
CoordIterNew(width, height) == [width |-> width, height |-> height, x |-> 0, y |-> 0]

\* a grid g with the index ix to look up, nothing looked up or iterated yet
StaticGridWith(g, ix) ==
    /\ grid = g /\ index = ix /\ got = Nothing
    /\ coord_iter = CoordIterNew(g.width, g.height) /\ yielded = << >> /\ iter_done = FALSE

\* no grid is in use
GridIdle == StaticGridWith(StaticGridNew(0, 0), [x |-> Usize(0), y |-> Usize(0), signed |-> FALSE])

\* none of the other units is in use
UnitsIdle == RoundIdle /\ TurnIdle /\ GridIdle

InitWith(w, e, d, flags) == EnvNew(w, e, d, flags) /\ UnitsIdle

\* ----------------------------------------------------------------- observe
\* mutant: the timestamp is not recorded
SetTime_Dropped(cs, t) == cs

\* knowledge.set_time(time)
SetTime(cs, t) == Append(cs, [op |-> "set_time", time |-> t])

\* knowledge.update_cell(coord, cell, entity_store); o = 0 for the eye cell,
\* else the octant, f the number of the frame whose row holds the cell
UpdateCell(cs, coord, o, f) ==
    Append(cs, [op |-> "update_cell", coord |-> coord, octant |-> o, frame |-> f])

ObserveEnter ==
    /\ pc = "idle"
    /\ calls' = SetTime(calls, time)
    /\ pc' = "eye"
    /\ UNCHANGED << args, octant_i, stack, limits, frame, scan, scan_locals,
                    octant_metadata, metadata, returned, visited, nframes >>

\* let mut metadata = if let Some(eye_cell) = world.get(eye) { update_cell } else { default }
ObserveEye ==
    /\ pc = "eye"
    /\ IF WorldGet(world, eye) /= Nothing
       THEN \E m \in SUBSET sink_flags :
                /\ calls' = UpdateCell(calls, eye, 0, 0)
                /\ metadata' = m
                /\ returned' = Merge(returned, m)
       ELSE /\ metadata' = {}
            /\ UNCHANGED << calls, returned >>
    /\ octant_i' = 1
    /\ pc' = "octant"
    /\ UNCHANGED << args, stack, limits, frame, scan, scan_locals, octant_metadata,
                    visited, nframes >>

\* mutant: the first frame starts at the eye's own row
SeedFrame_DepthZero(initial_min_slope, initial_max_slope) ==
    FrameNew(0, initial_min_slope, initial_max_slope, VisOne)

\* "Initial stack frame"
SeedFrame(initial_min_slope, initial_max_slope) ==
    FrameNew(1, initial_min_slope, initial_max_slope, VisOne)

\* detect_visible_area_octant up to its loop: limits, the seed frame
OctantBegin ==
    /\ pc = "octant"
    /\ octant_metadata' = {}
    /\ limits' = LimitsNew(eye, world, Octants[octant_i])
    /\ stack' = Append(stack, SeedFrame(RatZero, RatOne))
    /\ pc' = "pop"
    /\ UNCHANGED << args, octant_i, frame, scan, scan_locals, metadata, calls, returned,
                    visited, nframes >>

\* mutant: the loop stops with one frame left on the stack
StackExhausted_AtOne(s) == Len(s) <= 1

\* stack.pop() gives None
StackExhausted(s) == s = << >>

\* mutant: the oldest frame is taken
Top_Oldest(s) == s[1]

Top(s) == s[Len(s)]
Pop(s) == SubSeq(s, 1, Len(s) - 1)

\* while let Some(frame) = stack.pop(), Scan::new gives None
PopSkip ==
    /\ pc = "pop"
    /\ ~StackExhausted(stack)
    /\ LET fr == Top(stack) IN
       /\ frame' = fr
       /\ IF ~(SlopeInUnit(fr.min_slope) /\ SlopeInUnit(fr.max_slope))
          THEN pc' = "panic"
          ELSE /\ ScanNew(limits, fr, Octants[octant_i], distance) = Nothing
               /\ pc' = "pop"
    /\ stack' = Pop(stack)
    /\ nframes' = nframes + 1
    /\ UNCHANGED << args, octant_i, limits, scan, scan_locals, octant_metadata, metadata,
                    calls, returned, visited >>

\* while let Some(frame) = stack.pop(), Scan::new gives a row: scan() starts
PopScan ==
    /\ pc = "pop"
    /\ ~StackExhausted(stack)
    /\ LET fr == Top(stack)
           sc == ScanNew(limits, fr, Octants[octant_i], distance) IN
       /\ SlopeInUnit(fr.min_slope) /\ SlopeInUnit(fr.max_slope)
       /\ sc /= Nothing
       /\ frame' = fr
       /\ scan' = sc
       /\ idx' = sc.start_lateral_idx
       /\ min_slope' = fr.min_slope
    /\ first_iteration' = TRUE
    /\ previous_opaque' = FALSE
    /\ previous_visibility' = -VisOne
    /\ scan_metadata' = {}
    /\ stack' = Pop(stack)
    /\ nframes' = nframes + 1
    /\ pc' = "scan"
    /\ UNCHANGED << args, octant_i, limits, octant_metadata, metadata, calls, returned, visited >>


\* the frame of a visibility change at the current cell: pushed unless the
\* region that just ended was opaque
\* mutant: the region before a change of visibility is pushed even if opaque
TransitionFrames_IgnoreOpaque(fr, corner, prev_opaque, prev_visibility, ms, slope) ==
    IF corner /= None
    THEN << FrameNew(fr.depth + 1, ms, slope, prev_visibility) >>
    ELSE << >>

\* mutant: a region is pushed at every cell after a cell that is not opaque
TransitionFrames_Always(fr, corner, prev_opaque, prev_visibility, ms, slope) ==
    IF ~prev_opaque
    THEN << FrameNew(fr.depth + 1, ms, slope, prev_visibility) >>
    ELSE << >>

TransitionFrames(fr, corner, prev_opaque, prev_visibility, ms, slope) ==
    IF corner /= None /\ ~prev_opaque
    THEN << FrameNew(fr.depth + 1, ms, slope, prev_visibility) >>
    ELSE << >>

\* mutant: the final region is pushed even when the last cell is opaque
FinalFrames_IgnoreOpaque(fr, last_iteration, current_opaque, current_visibility, ms) ==
    IF last_iteration
    THEN << FrameNew(fr.depth + 1, ms, fr.max_slope, current_visibility) >>
    ELSE << >>

\* mutant: the final region is pushed with the visibility the row inherited
FinalFrames_FrameVisibility(fr, last_iteration, current_opaque, current_visibility, ms) ==
    IF last_iteration /\ ~current_opaque
    THEN << FrameNew(fr.depth + 1, ms, fr.max_slope, fr.visibility) >>
    ELSE << >>

\* mutant: the final region starts at the slope the row started at
FinalFrames_FrameMinSlope(fr, last_iteration, current_opaque, current_visibility, ms) ==
    IF last_iteration /\ ~current_opaque
    THEN << FrameNew(fr.depth + 1, fr.min_slope, fr.max_slope, current_visibility) >>
    ELSE << >>

\* "push the final region of the scan to the stack"
FinalFrames(fr, last_iteration, current_opaque, current_visibility, ms) ==
    IF last_iteration /\ ~current_opaque
    THEN << FrameNew(fr.depth + 1, ms, fr.max_slope, current_visibility) >>
    ELSE << >>

\* idx += lateral_step where no cell was found.  idx is an i32: once it has
\* left the grid moving away from final_idx every further iteration finds no
\* cell either, until the addition overflows.  A build with overflow checks
\* panics there; one without wraps around and walks on from the other side.
AbsentStep(i, final_idx, lateral_step, lim) ==
    IF (final_idx - i) * lateral_step > 0
    THEN {[pc |-> "scan", idx |-> i + lateral_step]}
    ELSE {[pc |-> "panic", idx |-> i],
          [pc |-> "scan",
           idx |-> IF lateral_step = 1 THEN Min(final_idx, lim.lateral_min)
                   ELSE Max(final_idx, lim.lateral_max)]}

\* one iteration of the row loop of scan()
ScanCell ==
    /\ pc = "scan"
    /\ idx /= FinalIdx(scan, Octants[octant_i])
    /\ LET octant == Octants[octant_i]
           last_iteration == idx = scan.end_lateral_idx
           coord == ScanCoord(scan, octant, idx)
           cell == WorldGet(world, coord)
       IN  IF cell = Nothing
           THEN /\ \E n \in AbsentStep(idx, FinalIdx(scan, octant), octant.lateral_step, limits) :
                       pc' = n.pc /\ idx' = n.idx
                /\ UNCHANGED << stack, first_iteration, previous_opaque, previous_visibility,
                                min_slope, scan_metadata, calls, returned, visited >>
           ELSE LET reported == Reportable(coord, eye, distance)
                    current_visibility == CurrentVisibility(frame.visibility, cell.opacity_total)
                    current_opaque == current_visibility = 0
                    corner == IF first_iteration THEN None
                              ELSE TransitionCorner(octant, current_visibility, previous_visibility)
                    slope == IF corner = None THEN min_slope
                             ELSE compute_slope(octant, limits.eye_centre2, cell_corner(coord, corner))
                    pushed1 == TransitionFrames(frame, corner, previous_opaque,
                                                previous_visibility, min_slope, slope)
                    pushed2 == FinalFrames(frame, last_iteration, current_opaque,
                                           current_visibility, slope)
                IN  /\ IF reported
                       THEN \E m \in SUBSET sink_flags :
                                /\ calls' = UpdateCell(calls, coord, octant_i, nframes)
                                /\ scan_metadata' = Merge(scan_metadata, m)
                                /\ returned' = Merge(returned, m)
                       ELSE UNCHANGED << calls, scan_metadata, returned >>
                    /\ IF corner /= None /\ ~SlopeInUnit(slope)
                       THEN /\ pc' = "panic"
                            /\ UNCHANGED << stack, min_slope, previous_opaque,
                                            previous_visibility, first_iteration, idx >>
                       ELSE /\ stack' = stack \o pushed1 \o pushed2
                            /\ min_slope' = slope
                            /\ previous_opaque' = current_opaque
                            /\ previous_visibility' = current_visibility
                            /\ first_iteration' = FALSE
                            /\ idx' = idx + octant.lateral_step
                            /\ pc' = "scan"
                    /\ visited' = Append(visited,
                            [ coord |-> coord, octant |-> octant_i, frame |-> nframes,
                              inherited |-> frame.visibility, opacity |-> cell.opacity_total,
                              visibility |-> current_visibility, reported |-> reported,
                              first |-> first_iteration, previous |-> previous_visibility,
                              pushed |-> pushed1 \o pushed2,
                              last |-> last_iteration, depth |-> frame.depth,
                              max_slope |-> frame.max_slope,
                              min_before |-> min_slope, min_after |-> slope,
                              transition |-> pushed1, final |-> pushed2 ])
    /\ UNCHANGED << args, octant_i, limits, frame, scan, octant_metadata, metadata, nframes >>

\* the row loop is over: scan() returns its metadata to detect_visible_area_octant
ScanEnd ==
    /\ pc = "scan"
    /\ idx = FinalIdx(scan, Octants[octant_i])
    /\ octant_metadata' = Merge(octant_metadata, scan_metadata)
    /\ pc' = "pop"
    /\ UNCHANGED << args, octant_i, stack, limits, frame, scan, scan_locals, metadata, calls,
                    returned, visited, nframes >>

\* the stack is empty: detect_visible_area_octant returns to observe's loop,
\* which goes on to the next octant or returns
OctantEnd ==
    /\ pc = "pop"
    /\ StackExhausted(stack)
    /\ metadata' = Merge(metadata, octant_metadata)
    /\ IF octant_i < NUM_OCTANTS
       THEN octant_i' = octant_i + 1 /\ pc' = "octant"
       ELSE octant_i' = octant_i /\ pc' = "done"
    /\ UNCHANGED << args, stack, limits, frame, scan, scan_locals, octant_metadata, calls,
                    returned, visited, nframes >>

\* ---------------------------------------------------- the caller of observe
\* a quarter turn of a coordinate of a world of height h
RotateCoord(c, h) == <<h - 1 - c[2], c[1]>>

\* the world turned by a quarter turn
RotateWorld(wd) ==
    [ width |-> wd.height, height |-> wd.width,
      opacity |-> [c \in Cells(wd.height, wd.width) |->
                      wd.opacity[<<c[2], wd.height - 1 - c[1]>>]] ]

\* k quarter turns of a coordinate of a world of width w and height h
RotateCoordBy(c, w, h, k) ==
    CASE k = 0 -> c
      [] k = 1 -> RotateCoord(c, h)
      [] k = 2 -> RotateCoord(RotateCoord(c, h), w)
      [] k = 3 -> RotateCoord(RotateCoord(RotateCoord(c, h), w), h)

RotateWorldBy(wd, k) ==
    CASE k = 0 -> wd
      [] k = 1 -> RotateWorld(wd)
      [] k = 2 -> RotateWorld(RotateWorld(wd))
      [] k = 3 -> RotateWorld(RotateWorld(RotateWorld(wd)))

\* the coordinates update_cell was called with
Reported(cs) == { cs[i].coord : i \in { j \in DOMAIN cs : cs[j].op = "update_cell" } }

\* observe has returned; the caller turns the world and the eye by k quarter
\* turns and calls observe once more on the same env
ObserveAgain ==
    /\ pc = "done"
    /\ ncalls = 0
    /\ \E k \in 1..3 :
        /\ turns' = k
        /\ world' = RotateWorldBy(world, k)
        /\ eye' = RotateCoordBy(eye, world.width, world.height, k)
    /\ previous_reported' = Reported(calls)
    /\ previous_calls' = calls
    /\ ncalls' = ncalls + 1
    /\ time' = time + 1
    /\ calls' = << >> /\ returned' = {} /\ visited' = << >> /\ nframes' = 0
    /\ pc' = "idle"
    /\ UNCHANGED << distance, sink_flags, octant_i, stack, limits, frame, scan, scan_locals,
                    octant_metadata, metadata, unit_vars >>

\* observe has returned; the caller calls observe once more on the same env
\* with the same world, eye and distance
ObserveSame ==
    /\ pc = "done"
    /\ ncalls = 0
    /\ turns' = 0
    /\ previous_reported' = Reported(calls)
    /\ previous_calls' = calls
    /\ ncalls' = ncalls + 1
    /\ time' = time + 1
    /\ calls' = << >> /\ returned' = {} /\ visited' = << >> /\ nframes' = 0
    /\ pc' = "idle"
    /\ UNCHANGED << world, eye, distance, sink_flags, octant_i, stack, limits, frame, scan,
                    scan_locals, octant_metadata, metadata, unit_vars >>

\* the distances of SpecWide: small ones, the last whose square fits an i32
\* and the next, the last whose square fits a u32 and the next, and one whose
\* square wraps to a small positive number
WideDistances == (0..MaxWideDist) \cup {46340, 46341, 65535, 65536, 92682}

\* observe has returned; the caller calls observe once more on the same env
\* with the same world and eye and a larger distance
ObserveFarther ==
    /\ pc = "done"
    /\ ncalls = 0
    /\ \E d \in WideDistances : d > distance /\ distance' = d
    /\ turns' = 0
    /\ previous_reported' = Reported(calls)
    /\ previous_calls' = calls
    /\ ncalls' = ncalls + 1
    /\ time' = time + 1
    /\ calls' = << >> /\ returned' = {} /\ visited' = << >> /\ nframes' = 0
    /\ pc' = "idle"
    /\ UNCHANGED << world, eye, sink_flags, octant_i, stack, limits, frame, scan,
                    scan_locals, octant_metadata, metadata, unit_vars >>

\* OctantArgs::new in a build with overflow checks: distance * distance
\* does not fit a u32 and the thread panics
OctantArgsOverflow ==
    /\ pc = "octant"
    /\ DistanceSquaredOverflows(distance)
    /\ pc' = "panic"
    /\ UNCHANGED << args, octant_i, stack, limits, frame, scan, scan_locals, octant_metadata,
                    metadata, calls, returned, visited, nframes >>

\* ------------------------------------------------------------------ worlds
NonZeroLevels == {2, VisOne}
Flags == {"seen", "changed"}

WorldOf(w, h, op) == [width |-> w, height |-> h, opacity |-> op]

\* the world of size w x h with no opacity anywhere
ClearWorld(w, h) == WorldOf(w, h, [c \in Cells(w, h) |-> 0])

\* the worlds of size w x h with at most one cell of non-zero opacity
OneCellWorlds(w, h) ==
    {ClearWorld(w, h)} \cup
    { WorldOf(w, h, [c \in Cells(w, h) |-> IF c = p THEN l ELSE 0]) :
        p \in Cells(w, h), l \in NonZeroLevels }

\* the worlds of size w x h whose cells are each transparent or opaque
BinaryWorlds(w, h) == { WorldOf(w, h, op) : op \in [Cells(w, h) -> {0, VisOne}] }

\* the worlds of size w x h with one or two cells of non-zero opacity
TwoCellWorlds(w, h) ==
    { WorldOf(w, h, [c \in Cells(w, h) |-> IF c = p THEN l ELSE IF c = q THEN m ELSE 0]) :
        p \in Cells(w, h), q \in Cells(w, h), l \in NonZeroLevels, m \in NonZeroLevels }

\* the worlds of size w x h with two cells of opacity 0.4 in one row
RowPairWorlds(w, h) ==
    { WorldOf(w, h, [c \in Cells(w, h) |-> IF c \in {pq[1], pq[2]} THEN 2 ELSE 0]) :
        pq \in { r \in Cells(w, h) \X Cells(w, h) : r[1][2] = r[2][2] /\ r[1][1] < r[2][1] } }

\* the positions of an eye in the column just west of a world of height h
EyesWest(h) == {-1} \X ((-1)..h)

\* the positions of an eye in or next to a world of size w x h
EyesAround(w, h) == ((-1)..w) \X ((-1)..h)

Neighbours(c) ==
    { <<c[1] + dx, c[2] + dy>> : dx \in {-1, 0, 1}, dy \in {-1, 0, 1} } \ {c}

\* worlds with at most one non-zero cell, the eye in or next to the world
Init ==
    \E w \in 1..MaxSize, h \in 1..MaxSize :
        \E wd \in OneCellWorlds(w, h), e \in EyesAround(w, h), d \in 0..MaxDist :
            InitWith(wd, e, d, {})

\* all-transparent worlds, the eye inside, distance at least 1
InitClear ==
    \E w \in 1..MaxClearSize, h \in 1..MaxClearSize :
        \E e \in Cells(w, h), d \in 1..MaxClearDist :
            InitWith(ClearWorld(w, h), e, d, {})

\* square worlds, the eye inside, the one opaque cell next to the eye
InitAdjacent ==
    \E n \in 3..MaxAdjSize :
        \E e \in Cells(n, n), d \in 0..MaxAdjDist :
            \E p \in Neighbours(e) \cap Cells(n, n) :
                InitWith(WorldOf(n, n, [c \in Cells(n, n) |-> IF c = p THEN VisOne ELSE 0]),
                         e, d, {})

\* all-transparent worlds, a sink that returns any set of flags
InitMeta ==
    \E w \in 1..MaxMetaSize, h \in 1..MaxMetaSize :
        \E e \in EyesAround(w, h), d \in 0..MaxMetaDist :
            InitWith(ClearWorld(w, h), e, d, Flags)

\* worlds with at most one non-zero cell, for the caller that turns the world
InitRot ==
    \E w \in 1..MaxRotSize, h \in 1..MaxRotSize :
        \E wd \in OneCellWorlds(w, h), e \in EyesAround(w, h), d \in 0..MaxRotDist :
            InitWith(wd, e, d, {})

\* worlds with any number of opaque cells and no partial opacity, and worlds
\* with one partly opaque cell, the eye inside
InitGrids ==
    \E w \in 1..MaxGridSize, h \in 1..MaxGridSize :
        \E wd \in BinaryWorlds(w, h) \cup OneCellWorlds(w, h), e \in Cells(w, h), d \in 2..MaxGridDist :
            InitWith(wd, e, d, {})

\* worlds with one or two cells of non-zero opacity, the eye west of the grid
InitPair ==
    \E w \in 1..MaxPairSize, h \in 1..MaxPairSize :
        \E wd \in TwoCellWorlds(w, h), e \in EyesWest(h), d \in 0..MaxPairDist :
            InitWith(wd, e, d, {})

\* long worlds with two partly opaque cells in one row, the eye west of the
\* grid near its north-west corner, a distance that reaches the far columns
InitDeep ==
    \E w \in (MaxDeepWidth - 1)..MaxDeepWidth, h \in (MaxDeepHeight - 1)..MaxDeepHeight :
        \E wd \in RowPairWorlds(w, h), e \in EyesWest(0), d \in (MaxDeepDist - 1)..MaxDeepDist :
            InitWith(wd, e, d, {})

\* worlds with at most one non-zero cell, a sink that may return a flag, for
\* the caller that calls observe twice on one env
InitReuse ==
    \E w \in 1..MaxReuseSize, h \in 1..MaxReuseSize :
        \E wd \in OneCellWorlds(w, h), e \in EyesAround(w, h), d \in 0..MaxReuseDist :
            InitWith(wd, e, d, {"seen"})

Next ==
    \/ ObserveEnter
    \/ ObserveEye
    \/ OctantBegin
    \/ PopSkip
    \/ PopScan
    \/ ScanCell
    \/ ScanEnd
    \/ OctantEnd

\* all-transparent worlds and worlds with one or two cells of non-zero
\* opacity, the eye in or next to the world
InitVis ==
    \E w \in 1..MaxVisSize, h \in 1..MaxVisSize :
        \E wd \in TwoCellWorlds(w, h) \cup {ClearWorld(w, h)}, e \in EyesAround(w, h),
           d \in 0..MaxVisDist :
            InitWith(wd, e, d, {})

\* all-transparent worlds, the eye inside, any distance a u32 holds
InitWide ==
    \E w \in 1..MaxWideSize, h \in 1..MaxWideSize :
        \E e \in Cells(w, h), d \in WideDistances :
            InitWith(ClearWorld(w, h), e, d, {})

\* observe in either build, and the caller that looks farther
NextWide ==
    \/ Next
    \/ OctantArgsOverflow
    \/ ObserveFarther

NextRot ==
    \/ Next
    \/ ObserveAgain

NextReuse ==
    \/ Next
    \/ ObserveSame

Spec == Init /\ [][Next]_vars

\* observe runs to completion: a step that can be taken is taken
FairSpec == Init /\ [][Next]_vars /\ WF_vars(Next)

SpecClear == InitClear /\ [][Next]_vars

SpecAdjacent == InitAdjacent /\ [][Next]_vars

SpecMeta == InitMeta /\ [][Next]_vars

SpecGrids == InitGrids /\ [][Next]_vars
SpecPair == InitPair /\ [][Next]_vars
SpecDeep == InitDeep /\ [][Next]_vars
SpecReuse == InitReuse /\ [][NextReuse]_vars
\* ------------------------------------------------------- sdl2_frontend/turn.rs
\* ActionType
Actions == {"Null", "Move"}

\* the sequences of at most k actions
ActionSeqs(k) == UNION { [1..n -> Actions] : n \in 0..k }

\* Reaction::immediate(action), the n-th reaction queued since take_turn began
ReactionImmediate(a, n) == [action |-> a, serial |-> n]

\* k reactions an earlier turn left in the list
StaleReactions(k) == [i \in 1..k |-> [action |-> "Stale", serial |-> 0]]

\* reaction.action.populate(change, entity_store): the action's changes are
\* added to the change
Populate(ch, action) == ch \cup {action}

\* policy.on_change(change, entity_store, spatial_hash, reactions): whether
\* the change is accepted, and the actions of the reactions it queues; it
\* reads the store and the hash
PolicyOnChange(budget) == [accept : BOOLEAN, queued : ActionSeqs(Min(2, budget))]

\* spatial_hash.update(entity_store, change, time)
SpatialHashUpdate(sh, ch, t) == Append(sh, [change |-> ch, time |-> t])

\* entity_store.commit_change(change): the store takes the change
CommitChange(store, ch) == Append(store, ch)

\* change.clear(), and the change after commit_change has drained it
ChangeClear(ch) == {}

\* mutant: the list keeps what an earlier turn left in it
ReactionsClear_Kept(rs) == rs

\* self.reactions.clear()
ReactionsClear(rs) == << >>

\* mutant: the behaviour entry is looked up before the knowledge entry
EarlyExits_BehaviourFirst(en) ==
    IF en.player THEN {"Err(PlayerTurnError)", "Ok(External)"}
    ELSE IF ~en.behaviour THEN {"Err(MissingNpcBehaviour)"}
    ELSE IF ~en.knowledge THEN {"Err(MissingNpcKnowledge)"}
    ELSE {"Err(NpcTurnError)"}

\* the ways take_turn can return before an action is obtained
EarlyExits(en) ==
    IF en.player THEN {"Err(PlayerTurnError)", "Ok(External)"}
    ELSE IF ~en.knowledge THEN {"Err(MissingNpcKnowledge)"}
    ELSE IF ~en.behaviour THEN {"Err(MissingNpcBehaviour)"}
    ELSE {"Err(NpcTurnError)"}

\* act() can be reached: the player, or an NPC with both of its entries
ActReached(en) == en.player \/ (en.knowledge /\ en.behaviour)

\* take_turn returns on a `?` or on MetaAction::External
TakeTurnReturnEarly ==
    /\ turn_pc = "idle"
    /\ \E r \in EarlyExits(entity) : resolution' = r
    /\ turn_pc' = "returned"
    /\ UNCHANGED << observe_vars, round_vars, grid_vars, entity, reactions, change, entity_store,
                    spatial_hash, turn_time, entry, npushed, processed >>

\* act() gives an action: CommitEnv::commit clears the list and queues it
TakeTurnCommit ==
    /\ turn_pc = "idle"
    /\ ActReached(entity)
    /\ \E initial_action \in Actions :
           reactions' = Append(ReactionsClear(reactions), ReactionImmediate(initial_action, 1))
    /\ npushed' = 1
    /\ turn_pc' = "commit"
    /\ UNCHANGED << observe_vars, round_vars, grid_vars, entity, change, entity_store, spatial_hash,
                    turn_time, resolution, entry, processed >>

\* one iteration of while let Some(reaction) = self.reactions.pop(): the
\* action populates the change, the policy accepts or rejects it and may
\* queue reactions
CommitLoop ==
    /\ turn_pc = "commit"
    /\ ~StackExhausted(reactions)
    /\ LET reaction == Top(reactions)
           populated == Populate(change, reaction.action)
       IN  \E on_change \in PolicyOnChange(MaxReactions - npushed) :
            /\ reactions' = Pop(reactions) \o
                                [i \in 1..Len(on_change.queued) |->
                                    ReactionImmediate(on_change.queued[i], npushed + i)]
            /\ npushed' = npushed + Len(on_change.queued)
            /\ IF on_change.accept
               THEN /\ turn_time' = turn_time + 1
                    /\ spatial_hash' = SpatialHashUpdate(spatial_hash, populated, turn_time')
                    /\ entity_store' = CommitChange(entity_store, populated)
                    /\ change' = ChangeClear(populated)
               ELSE /\ change' = ChangeClear(populated)
                    /\ UNCHANGED << turn_time, spatial_hash, entity_store >>
            /\ processed' = Append(processed,
                                   [action |-> reaction.action, serial |-> reaction.serial,
                                    accepted |-> on_change.accept])
    /\ UNCHANGED << observe_vars, round_vars, grid_vars, entity, turn_pc, resolution, entry >>

\* the list is empty: commit returns and take_turn returns Ok(Reschedule)
CommitReturn ==
    /\ turn_pc = "commit"
    /\ StackExhausted(reactions)
    /\ resolution' = "Ok(Reschedule)"
    /\ turn_pc' = "returned"
    /\ UNCHANGED << observe_vars, round_vars, grid_vars, entity, reactions, change, entity_store,
                    spatial_hash, turn_time, entry, npushed, processed >>

\* any entity, any state of its two maps, a list that may hold reactions of
\* an earlier turn
InitTurn ==
    /\ EnvIdle /\ RoundIdle /\ GridIdle
    /\ \E en \in [player : BOOLEAN, knowledge : BOOLEAN, behaviour : BOOLEAN],
          k \in 0..MaxStale, t \in 0..MaxTurnTime :
            TurnEnvNew(en, StaleReactions(k), t)

NextTurn ==
    \/ TakeTurnReturnEarly
    \/ TakeTurnCommit
    \/ CommitLoop
    \/ CommitReturn

SpecTurn == InitTurn /\ [][NextTurn]_vars

\* --------------------------------------------------- StaticGrid::get, contains
\* a thread that panicked
Panicked == [panic |-> TRUE]

\* StaticGridIdx::is_valid, for (usize, usize) and for (isize, isize)
IdxIsValid(ix, width) ==
    IF ix.signed
    THEN ~BytesNegative(ix.x) /\ ~BytesNegative(ix.y) /\ BytesLess(ix.x, Usize(width))
    ELSE BytesLess(ix.x, Usize(width))

\* StaticGridIdx::wrap_to_index, self.1 * width + self.0, where the
\* arithmetic wraps
IdxWrapToIndex(ix, width) ==
    WrappingAdd(WrappingMul(ix.y, Usize(width), UsizeBytes), ix.x, UsizeBytes)

\* the multiplication or the addition of wrap_to_index overflows
IdxWrapOverflows(ix, width) ==
    \/ MulOverflows(ix.y, Usize(width), UsizeBytes)
    \/ AddOverflows(WrappingMul(ix.y, Usize(width), UsizeBytes), ix.x, UsizeBytes)

\* Vec::get / Vec::get_mut
ItemsGet(items, i) ==
    IF BytesLess(i, Usize(Len(items))) THEN [some |-> items[BytesToInt(i) + 1]] ELSE Nothing

\* StaticGrid::get and get_mut: what the call can come to; an overflow in
\* wrap_to_index panics in a build with overflow checks and wraps in one
\* without
StaticGridGet(g, ix) ==
    IF ~IdxIsValid(ix, g.width) THEN {Nothing}
    ELSE {ItemsGet(g.items, IdxWrapToIndex(ix, g.width))}
         \cup (IF IdxWrapOverflows(ix, g.width) THEN {Panicked} ELSE {})

\* StaticGrid::contains
StaticGridContains(g, ix) ==
    IF ~IdxIsValid(ix, g.width) THEN {[is |-> FALSE]}
    ELSE {[is |-> BytesLess(IdxWrapToIndex(ix, g.width), Usize(Len(g.items)))]}
         \cup (IF IdxWrapOverflows(ix, g.width) THEN {Panicked} ELSE {})

\* grid.get(index), grid.get_mut(index) or grid.contains(index)
GridLookup ==
    /\ got = Nothing
    /\ \/ \E r \in StaticGridGet(grid, index) : got' = [op |-> "get", value |-> r]
       \/ \E r \in StaticGridGet(grid, index) : got' = [op |-> "get_mut", value |-> r]
       \/ \E r \in StaticGridContains(grid, index) : got' = [op |-> "contains", value |-> r]
    /\ UNCHANGED << observe_vars, round_vars, turn_vars, grid, index, coord_iter, yielded,
                    iter_done >>

\* index components: small ones, 2^62, 2^63 and the largest (-1 when signed)
IndexValues ==
    { Usize(v) : v \in 0..MaxIndex }
        \cup {Pow2Bytes(62, UsizeBytes), Pow2Bytes(63, UsizeBytes), MaxBytes(UsizeBytes)}

\* a grid of any size and any index pair, unsigned or signed
InitStatic ==
    /\ EnvIdle /\ RoundIdle /\ TurnIdle
    /\ \E w \in 0..MaxStaticSize, h \in 0..MaxStaticSize :
          \E ix \in [x : IndexValues, y : IndexValues, signed : BOOLEAN] :
              StaticGridWith(StaticGridNew(w, h), ix)

NextStatic == GridLookup

SpecStatic == InitStatic /\ [][NextStatic]_vars

\* ------------------------------------------------------- CoordIter::next
\* one call of next() on the CoordIter of the grid; the caller asks at most
\* MaxYield times after the first
CoordIterNext ==
    /\ ~iter_done
    /\ Len(yielded) <= MaxYield
    /\ IF coord_iter.y = coord_iter.height
       THEN /\ iter_done' = TRUE
            /\ UNCHANGED << coord_iter, yielded >>
       ELSE /\ yielded' = Append(yielded, <<coord_iter.x, coord_iter.y>>)
            /\ coord_iter' = IF coord_iter.x + 1 = coord_iter.width
                             THEN [coord_iter EXCEPT !.x = 0, !.y = coord_iter.y + 1]
                             ELSE [coord_iter EXCEPT !.x = coord_iter.x + 1]
            /\ UNCHANGED iter_done
    /\ UNCHANGED << observe_vars, round_vars, turn_vars, grid, index, got >>

\* a grid of any size, zero included, and its coord_iter()
InitIter ==
    /\ EnvIdle /\ RoundIdle /\ TurnIdle
    /\ \E w \in 0..MaxStaticSize, h \in 0..MaxStaticSize :
          StaticGridWith(StaticGridNew(w, h), [x |-> Usize(0), y |-> Usize(0), signed |-> FALSE])

NextIter == CoordIterNext

SpecIter == InitIter /\ [][NextIter]_vars

\* ------------------------------------------------------- RoundType::round
\* round(&self, x) for either RoundType
Round ==
    /\ rounded = Nothing
    /\ \E rt \in {"Floor", "ExclusiveFloor"} :
           rounded' = [round_type |-> rt, value |-> RoundTypeRoundF64(rt, x)]
    /\ UNCHANGED << observe_vars, x, turn_vars, grid_vars >>

InitRound == EnvIdle /\ x \in F64Values /\ rounded = Nothing /\ TurnIdle /\ GridIdle

NextRound == Round

SpecRound == InitRound /\ [][NextRound]_vars

SpecVis == InitVis /\ [][Next]_vars
SpecWide == InitWide /\ [][NextWide]_vars

SpecRot == InitRot /\ [][NextRot]_vars


\* ================================================================ properties
\* the update_cell calls made for coordinate c by octant o (0: the eye report)
CallsFor(c, o) ==
    { i \in DOMAIN calls : calls[i].op = "update_cell" /\ calls[i].coord = c
                           /\ calls[i].octant = o }

\* the update_cell calls made for coordinate c by the octant scans
ScanCallsFor(c) ==
    { i \in DOMAIN calls : calls[i].op = "update_cell" /\ calls[i].coord = c
                           /\ calls[i].octant >= 1 }

SquaredDistance(c) == (c[1] - eye[1]) * (c[1] - eye[1]) + (c[2] - eye[2]) * (c[2] - eye[2])

WorldCells == Cells(world.width, world.height)

EyeInside == eye \in WorldCells

AllTransparent == \A c \in WorldCells : world.opacity[c] = 0

AllBinary == \A c \in WorldCells : world.opacity[c] \in {0, VisOne}

\* c lies on the row, the column or a diagonal through the eye
OnOctantBoundary(c) ==
    \/ c[1] = eye[1]
    \/ c[2] = eye[2]
    \/ Abs(c[1] - eye[1]) = Abs(c[2] - eye[2])

\* c lies in the 45 degree wedge of octant o: at least one step along the
\* depth direction, and between 0 and as many steps along the lateral direction
InWedge(c, o) ==
    LET dv == CardinalVector(OctantDirs[o][1])
        lv == CardinalVector(OctantDirs[o][2])
        dd == (c[1] - eye[1]) * dv[1] + (c[2] - eye[2]) * dv[2]
        ld == (c[1] - eye[1]) * lv[1] + (c[2] - eye[2]) * lv[2]
    IN  dd >= 1 /\ ld >= 0 /\ ld <= dd

\* ------------------------------------------------------------------------ C1
\* C1: in an all-transparent world with the eye inside and distance >= 1, when
\* observe has returned every cell nearer than the distance (squared distance
\* < distance^2) has been reported exactly once by each octant whose wedge
\* holds it and by no other octant, so twice when it lies on a row, column or
\* diagonal through the eye and once otherwise (the eye itself: once, by
\* observe); a cell at or beyond the distance has not been reported.
C1_ClearWorldCoverage ==
    (pc = "done" /\ AllTransparent /\ EyeInside /\ distance >= 1) =>
        \A c \in WorldCells :
            IF SquaredDistance(c) < distance * distance
            THEN /\ \A o \in 1..NUM_OCTANTS :
                        Cardinality(CallsFor(c, o)) = IF InWedge(c, o) THEN 1 ELSE 0
                 /\ Cardinality(ScanCallsFor(c)) =
                        IF c = eye THEN 0 ELSE IF OnOctantBoundary(c) THEN 2 ELSE 1
                 /\ Cardinality(CallsFor(c, 0)) = IF c = eye THEN 1 ELSE 0
            ELSE ScanCallsFor(c) = {} /\ CallsFor(c, 0) = {}

\* a finished observation of a clear world that reported a cell off every
\* boundary once and a cell on a diagonal twice
C1_Witness ==
    /\ pc = "done" /\ AllTransparent /\ EyeInside /\ distance >= 3
    /\ \E c \in WorldCells : ~OnOctantBoundary(c) /\ Cardinality(ScanCallsFor(c)) = 1
    /\ \E c \in WorldCells : c /= eye /\ Abs(c[1] - eye[1]) = Abs(c[2] - eye[2])
                             /\ Cardinality(ScanCallsFor(c)) = 2
    /\ \E c \in WorldCells : SquaredDistance(c) >= distance * distance


\* ------------------------------------------------------------------------ C2
OpaqueCells == { c \in WorldCells : world.opacity[c] = VisOne }

\* exactly one cell is opaque, it is next to the eye (orthogonally or
\* diagonally), and every other cell has opacity 0
AdjacentScenario ==
    /\ EyeInside
    /\ Cardinality(OpaqueCells) = 1
    /\ OpaqueCells \subseteq Neighbours(eye)
    /\ \A c \in WorldCells \ OpaqueCells : world.opacity[c] = 0

TheOpaqueCell == CHOOSE c \in OpaqueCells : TRUE

\* the cells strictly behind the opaque cell on the ray from the eye through it
BehindOnRay ==
    { c \in WorldCells : \E k \in 2..(world.width + world.height) :
        c = << eye[1] + k * (TheOpaqueCell[1] - eye[1]), eye[2] + k * (TheOpaqueCell[2] - eye[2]) >> }

\* the 5x5 instance: eye (2,2), opaque cell (2,3), distance 3
AdjacentInstance ==
    /\ world.width = 5 /\ world.height = 5 /\ eye = <<2, 2>> /\ distance = 3
    /\ AdjacentScenario /\ TheOpaqueCell = <<2, 3>>

InstanceOutcome ==
    /\ <<2, 3>> \in Reported(calls)
    /\ <<2, 4>> \notin Reported(calls)
    /\ <<1, 3>> \in Reported(calls)
    /\ <<3, 3>> \in Reported(calls)

Visits == { visited[i] : i \in DOMAIN visited }

\* the update_cell calls made by the octant scans
ScanCalls == { i \in DOMAIN calls : calls[i].op = "update_cell" /\ calls[i].octant >= 1 }

\* C3: every update_cell call of an octant scan is for a cell whose squared
\* distance from the eye cell is strictly less than distance^2, at any depth;
\* a cell of a scanned row at or beyond the cutoff is not reported, yet its
\* visibility is still the inherited visibility less its opacity, and a change
\* of visibility at it still splits the row (the region before it is pushed
\* with the previous visibility unless that region was opaque).
C3_SquaredDistanceCutoff ==
    /\ \A i \in ScanCalls : SquaredDistance(calls[i].coord) < distance * distance
    /\ Cardinality(ScanCalls) = Cardinality({ i \in DOMAIN visited : visited[i].reported })
    /\ \A v \in Visits :
        /\ v.reported <=> SquaredDistance(v.coord) < distance * distance
        /\ v.visibility = Max(v.inherited - v.opacity, 0)
        /\ (~v.reported /\ ~v.first /\ v.visibility /= v.previous /\ v.previous > 0) =>
                \E k \in DOMAIN v.pushed : v.pushed[k].visibility = v.previous

\* a cell beyond the cutoff with opacity of its own was scanned, not reported,
\* and split its row
C3_Witness ==
    \E v \in Visits :
        /\ ~v.reported /\ ~v.first /\ v.opacity > 0
        /\ v.visibility < v.previous
        /\ \E k \in DOMAIN v.pushed : v.pushed[k].visibility = v.previous
        /\ \E i \in ScanCalls : calls[i].octant = v.octant

\* ------------------------------------------------------------------------ C4
\* eye at (0,0), opacity 0.4 at (1,0), 0 everywhere else, in a world that has
\* the cell (2,0)
PartialScenario ==
    /\ eye = <<0, 0>>
    /\ <<2, 0>> \in WorldCells
    /\ world.opacity[<<1, 0>>] = 2
    /\ \A c \in WorldCells \ {<<1, 0>>} : world.opacity[c] = 0

VisitsOf(c) == { v \in Visits : v.coord = c }

\* (2,0) is scanned, always under an inherited visibility of 0.6, and comes
\* out with visibility 0.6; (1,0) comes out with visibility 0.6 from 1
OpacityAppliedOnce ==
    /\ VisitsOf(<<2, 0>>) /= {}
    /\ \A v \in VisitsOf(<<2, 0>>) : v.inherited = 3 /\ v.visibility = 3
    /\ VisitsOf(<<1, 0>>) /= {}
    /\ \A v \in VisitsOf(<<1, 0>>) : v.inherited = VisOne /\ v.visibility = 3

\* C4 as stated: in the scenario with distance 2, a finished observation has
\* reported (1,0) and (2,0), and (2,0) was scanned under inherited visibility
\* 0.6 with effective visibility 0.6.
C4_AsStated ==
    (pc = "done" /\ PartialScenario /\ distance = 2) =>
        /\ <<1, 0>> \in Reported(calls)
        /\ <<2, 0>> \in Reported(calls)
        /\ OpacityAppliedOnce

\* C4 amended: in the scenario with distance 2, a finished observation has
\* reported (1,0) but not (2,0), whose squared distance 4 is not less than 4;
\* with distance 3 it has reported both; in either case the row of (2,0) was
\* scanned under an inherited visibility of 0.6 and (2,0) has effective
\* visibility 0.6, the 0.4 being subtracted once.
C4_PartialOpacityOnce ==
    (pc = "done" /\ PartialScenario /\ distance >= 2) =>
        /\ <<1, 0>> \in Reported(calls)
        /\ (<<2, 0>> \in Reported(calls)) <=> (distance >= 3)
        /\ OpacityAppliedOnce

\* the scenario has run with distance 2 and (2,0) was scanned but not reported
C4_Witness ==
    /\ pc = "done" /\ PartialScenario /\ distance = 2
    /\ VisitsOf(<<2, 0>>) /= {}
    /\ <<1, 0>> \in Reported(calls)
    /\ <<2, 0>> \notin Reported(calls)

\* ------------------------------------------------------------------------ C5
\* the coordinates the first run reported, turned as the world was turned for
\* the second run (the world now has the turned dimensions)
RotatedPrevious ==
    LET w0 == IF turns = 2 THEN world.width ELSE world.height
        h0 == IF turns = 2 THEN world.height ELSE world.width
    IN  { RotateCoordBy(c, w0, h0, turns) : c \in previous_reported }

\* C5: when observe has run, the world and the eye have been turned by 90, 180
\* or 270 degrees and observe has run again with the same distance, the second
\* run has reported exactly the turned coordinates of the first run's reports.
C5_RotationSymmetry ==
    (pc = "done" /\ ncalls = 1) => Reported(calls) = RotatedPrevious

\* a second run is over on a turned world in which a cell within the distance
\* lies in shadow, and it reported other cells than the first run did
C5_Witness ==
    /\ pc = "done" /\ ncalls = 1
    /\ ~AllTransparent
    /\ Cardinality(Reported(calls)) >= 3
    /\ \E c \in WorldCells : SquaredDistance(c) < distance * distance /\ c \notin Reported(calls)
    /\ Reported(calls) /= previous_reported

\* ------------------------------------------------------------------------ C6
\* update_cell is called at most once for a cell off the octant boundaries and
\* at most twice for a cell on one, and no octant reports a cell twice
ReportBound ==
    \A c \in WorldCells :
        /\ Cardinality(ScanCallsFor(c)) <= IF OnOctantBoundary(c) THEN 2 ELSE 1
        /\ \A o \in 1..NUM_OCTANTS : Cardinality(CallsFor(c, o)) <= 1

C7_SetTimeOnceFirst ==
    IF pc = "idle"
    THEN calls = << >>
    ELSE /\ Len(calls) >= 1
         /\ calls[1] = [op |-> "set_time", time |-> time]
         /\ \A i \in 2..Len(calls) : calls[i].op = "update_cell"

\* a second observation is over, with its own time, in which the eye cell and
\* cells of the octant scans were reported
C7_Witness ==
    /\ pc = "done" /\ ncalls = 1 /\ time = 1
    /\ \E i \in DOMAIN calls : calls[i].op = "update_cell" /\ calls[i].octant = 0
    /\ ScanCalls /= {}

\* ------------------------------------------------------------------------ C8
\* the update_cell calls made for the eye cell by observe itself
EyeCalls == { i \in DOMAIN calls : calls[i].op = "update_cell" /\ calls[i].octant = 0 }

\* C8: the eye's own coordinate is reported exactly once per observation when
\* the grid has data there and never when it has none, for every distance,
\* 0 included; the eye report comes before every octant-scan report, and no
\* octant scan ever reports the eye coordinate.
C8_EyeCellOnce ==
    /\ pc \in {"idle", "eye"} => EyeCalls = {} /\ ScanCalls = {}
    /\ pc \notin {"idle", "eye"} =>
            /\ Cardinality(EyeCalls) = IF EyeInside THEN 1 ELSE 0
            /\ \A i \in EyeCalls : calls[i].coord = eye /\ \A j \in ScanCalls : i < j
    /\ ScanCallsFor(eye) = {}

\* an observation is over in which the eye cell was reported and so were
\* cells of the octant scans
C8_Witness ==
    /\ pc = "done" /\ EyeInside
    /\ EyeCalls /= {}
    /\ ScanCalls /= {}

\* ------------------------------------------------------------------------ C9
UpdateCalls == { i \in DOMAIN calls : calls[i].op = "update_cell" }

\* C9: the metadata observe returns is the union of the metadata returned by
\* every update_cell call of the observation (the eye cell and every scanned
\* row of all 8 octants), and is empty when no update_cell call was made.
C9_MetadataIsUnion ==
    pc = "done" =>
        /\ metadata = returned
        /\ UpdateCalls = {} => metadata = {}

\* an observation is over in which several update_cell calls were made, for
\* the eye and in more than one octant, and one of the two flags was returned
C9_Witness ==
    /\ pc = "done"
    /\ metadata = {"seen"}
    /\ EyeCalls /= {}
    /\ \E i, j \in ScanCalls : calls[i].octant /= calls[j].octant

\* ----------------------------------------------------------------------- C10
\* the row loop has not stepped past the index at which it stops
LoopBeforeFinal ==
    pc = "scan" =>
        (FinalIdx(scan, Octants[octant_i]) - idx) * Octants[octant_i].lateral_step >= 0

\* C10: observe terminates, whatever the grid, the eye position (inside or
\* outside the grid), the distance and the opacities: a row loop's index never
\* passes the index at which the loop stops, and observe returns, which it does
\* only after each of the 8 octants has come to an empty frame stack.
C10_ObserveTerminates ==
    /\ []LoopBeforeFinal
    /\ <>(pc = "done" /\ octant_i = NUM_OCTANTS /\ stack = << >>)

\* observe has returned, with the eye outside the world, after scanning rows
\* of several frames in a world with a partly or fully opaque cell
C10_Witness ==
    /\ pc = "done" /\ stack = << >>
    /\ ~EyeInside /\ ~AllTransparent
    /\ nframes >= 10
    /\ \E v \in Visits : v.pushed /= << >> /\ ~v.first

\* ----------------------------------------------------------------------- C11
\* the frames on the stack
StackFrames == { stack[i] : i \in DOMAIN stack }

\* the frames the row loops have pushed
PushedFrames == UNION { { v.pushed[k] : k \in DOMAIN v.pushed } : v \in Visits }

\* C11: no assertion of the engine fires during observe, for any grid, eye
\* (inside or outside the grid) and distance: every frame that reaches
\* Scan::new has min_slope and max_slope in [0,1], every transition slope
\* computed in scan lies in [0,1], and no slope is computed over a zero depth
\* displacement.
C11_NoAssertionFires ==
    /\ pc /= "panic"
    /\ \A f \in StackFrames \cup PushedFrames :
            SlopeInUnit(f.min_slope) /\ SlopeInUnit(f.max_slope)
    /\ pc \in {"scan", "pop"} => SlopeInUnit(frame.min_slope) /\ SlopeInUnit(frame.max_slope)
    /\ pc = "scan" => SlopeInUnit(min_slope)

\* with the eye outside the grid, a row loop has computed a transition slope
\* strictly between 0 and 1 and gone on
C11_Witness ==
    /\ pc = "scan" /\ ~EyeInside
    /\ min_slope /= frame.min_slope
    /\ RatLess(RatZero, min_slope) /\ RatLess(min_slope, RatOne)
    /\ \E f \in StackFrames : f.max_slope = min_slope

\* ----------------------------------------------------------------------- C12
\* C12: every frame ever pushed onto the stack during observe has
\* min_slope <= max_slope, whether it is pushed at a visibility transition or
\* as the final frame of a row, for every grid, eye and distance.
C12_FrameSlopesOrdered ==
    \A f \in StackFrames \cup PushedFrames : RatLeq(f.min_slope, f.max_slope)

\* ----------------------------------------------------------------------- C13
\* the rows scanned so far, each named by the number of its frame
Rows == { v.frame : v \in Visits }

\* the row loop of frame f is over
RowDone(f) == ~(pc = "scan" /\ f = nframes)

\* the positions in visited of the cells of the row of frame f
RowVisits(f) == { i \in DOMAIN visited : visited[i].frame = f }

\* the number of frames the row scan of frame f has pushed
RowPushes(f) ==
    Cardinality({ ik \in RowVisits(f) \X (1..2) : ik[2] <= Len(visited[ik[1]].pushed) })

\* the number of maximal runs of neighbouring cells of one non-zero effective
\* visibility in the row of frame f
VisibleRuns(f) ==
    Cardinality({ i \in RowVisits(f) :
        /\ visited[i].visibility > 0
        /\ \/ i + 1 \notin RowVisits(f)
           \/ visited[i + 1].visibility /= visited[i].visibility })

\* C13 as stated: a single row scan pushes at most 2 new frames onto the
\* stack, for every frame and every opacity pattern of the row.
C13_AsStated == \A f \in Rows : RowPushes(f) <= 2

\* C13 amended: a single row scan pushes one frame for each maximal run of
\* neighbouring cells with the same non-zero effective visibility, at most one
\* per cell it visits (two at its last cell, none at a first cell that is not
\* the last); that is at most 2 frames only for rows with at most two such runs.
C13_OneFramePerVisibleRun ==
    /\ \A f \in Rows : RowDone(f) => RowPushes(f) = VisibleRuns(f)
    /\ \A f \in Rows : RowPushes(f) <= Cardinality(RowVisits(f))
    /\ \A v \in Visits : Len(v.pushed) <= 2

\* a finished row scan of three cells, transparent, partly opaque, transparent,
\* has pushed three frames
C13_Witness ==
    \E f \in Rows :
        /\ RowDone(f)
        /\ RowPushes(f) = 3
        /\ Cardinality(RowVisits(f)) = 3
        /\ \E i \in RowVisits(f) : visited[i].opacity = 2

\* ----------------------------------------------------------------------- C14
\* the slope from the eye centre to a corner of the cell of visit v: the
\* corner on the cell's lateral side nearer the eye, and on its depth side
\* nearer the eye if near, else on its farther depth side
CornerSlope(v, near) ==
    LET o == Octants[v.octant]
        c_lat == v.coord[o.lateral_idx]
        c_dep == v.coord[o.depth_idx]
        lat == IF o.lateral_step = 1 THEN c_lat ELSE c_lat + 1
        dep == IF (o.depth_step = 1) = near THEN c_dep ELSE c_dep + 1
    IN  Rat(Abs(2 * lat - (2 * eye[o.lateral_idx] + 1)), Abs(2 * dep - (2 * eye[o.depth_idx] + 1)))

\* C14: at every visited cell after the first of its row whose effective
\* visibility differs from the previous cell's, the transition slope goes
\* through the opacity-decrease corner (near in depth) when visibility rose and
\* through the opacity-increase corner (far in depth) when it fell; a frame
\* (depth+1, running_min_slope, transition_slope, previous visibility) is
\* pushed iff the previous cell was not fully opaque, and running_min_slope
\* becomes the transition slope either way. At an unchanged visibility and at
\* the first cell nothing is pushed and running_min_slope is unchanged.
C14_TransitionRule ==
    \A v \in Visits :
        IF v.first \/ v.visibility = v.previous
        THEN v.transition = << >> /\ v.min_after = v.min_before
        ELSE /\ v.min_after = CornerSlope(v, v.visibility > v.previous)
             /\ v.transition = IF v.previous > 0
                               THEN << FrameNew(v.depth + 1, v.min_before, v.min_after, v.previous) >>
                               ELSE << >>

\* in one finished observation visibility both fell at a cell after a visible
\* one, pushing the region before it, and rose at a cell after an opaque one,
\* pushing nothing but moving the running minimum slope
C14_Witness ==
    /\ pc = "done"
    /\ \E v \in Visits : ~v.first /\ v.visibility < v.previous /\ v.transition /= << >>
    /\ \E v \in Visits : /\ ~v.first /\ v.visibility > v.previous /\ v.previous = 0
                         /\ v.transition = << >> /\ v.min_after /= v.min_before
    /\ \E v \in Visits : ~v.first /\ v.visibility = v.previous

\* ----------------------------------------------------------------------- C15
\* the row loop has just processed its last cell
AfterLastCell == pc = "scan" /\ idx = FinalIdx(scan, Octants[octant_i]) /\ visited /= << >>
                 /\ visited[Len(visited)].frame = nframes

\* C15: at the last lateral cell of a scanned row exactly one final frame
\* (depth+1, running_min_slope, the scanned frame's max_slope, the last cell's
\* effective visibility) is pushed if that cell is not fully opaque and none
\* if it is; no final frame is pushed at any other cell; and the final frame
\* is pushed after the transition frame of that same cell, if there is one.
C15_EndOfRowRule ==
    /\ \A v \in Visits :
        v.final = IF v.last /\ v.visibility > 0
                  THEN << FrameNew(v.depth + 1, v.min_after, v.max_slope, v.visibility) >>
                  ELSE << >>
    /\ \A f \in Rows : RowDone(f) => Cardinality({ i \in RowVisits(f) : visited[i].last }) = 1
    /\ AfterLastCell =>
        LET v == visited[Len(visited)]
            n == Len(stack)
        IN  /\ v.last
            /\ v.final /= << >> => n >= 1 /\ stack[n] = v.final[1]
            /\ (v.final /= << >> /\ v.transition /= << >>) =>
                    n >= 2 /\ stack[n - 1] = v.transition[1]
            /\ (v.final = << >> /\ v.transition /= << >>) =>
                    n >= 1 /\ stack[n] = v.transition[1]

\* a row loop of several cells has just pushed, at its last cell, a transition
\* frame and on top of it the final frame
C15_Witness ==
    /\ AfterLastCell
    /\ LET v == visited[Len(visited)] IN
        /\ v.transition /= << >> /\ v.final /= << >>
        /\ v.min_after /= v.min_before
        /\ stack[Len(stack)] = v.final[1]
        /\ stack[Len(stack) - 1] = v.transition[1]
        /\ Cardinality(RowVisits(v.frame)) >= 2

\* ----------------------------------------------------------------------- C16
\* the cell of visit v counts as opaque for the continuation of the scan: no
\* frame is pushed with its visibility, neither as the final frame at it nor
\* as the region before the next cell of its row
Blocks(i) ==
    /\ visited[i].final = << >>
    /\ (i + 1 \in DOMAIN visited /\ visited[i + 1].frame = visited[i].frame) =>
            visited[i + 1].transition = << >>

\* C16: for every visited cell the effective visibility is max(the scanned
\* frame's inherited visibility - the cell's opacity, 0); the cell is opaque
\* for continuation exactly when that is 0, that is when its opacity is at
\* least the inherited visibility, and a smaller opacity attenuates; the
\* attenuation reaches deeper rows only through the visibility of pushed
\* frames: a row of depth 1 inherits 1, and every frame a cell pushes carries
\* the effective visibility of that cell or of the cell before it.
C16_EffectiveVisibility ==
    /\ \A i \in DOMAIN visited :
        LET v == visited[i] IN
        /\ v.visibility = (IF v.inherited - v.opacity > 0 THEN v.inherited - v.opacity ELSE 0)
        /\ (v.visibility = 0) <=> (v.opacity >= v.inherited)
        /\ v.visibility = 0 => Blocks(i)
        /\ v.depth = 1 => v.inherited = VisOne
        /\ \A k \in DOMAIN v.final : v.final[k].visibility = v.visibility
        /\ \A k \in DOMAIN v.transition : v.transition[k].visibility = v.previous
    /\ pc = "scan" => \A i \in RowVisits(nframes) : visited[i].inherited = frame.visibility

\* in one observation an opaque cell was seen through a partly opaque one, in
\* a row that inherited visibility 0.6: its opacity 1 is more than the 0.6, its
\* visibility is held at 0 and it blocks, while its transparent neighbour in
\* that row keeps the 0.6
C16_Witness ==
    /\ \E i \in DOMAIN visited :
        /\ visited[i].inherited = 3 /\ visited[i].opacity = VisOne /\ visited[i].visibility = 0
        /\ visited[i].last /\ Blocks(i)
    /\ \E v \in Visits : v.inherited = 3 /\ v.opacity = 0 /\ v.visibility = 3 /\ v.depth >= 2

\* ----------------------------------------------------------------------- C17
\* C17: every Scan that Scan::new constructs covers at least one cell: its
\* start lateral index is not beyond its clipped end lateral index in the
\* octant's scan direction, so no constructed Scan has a loop that visits
\* nothing.
C17_ScanCoversACell ==
    pc = "scan" =>
        (scan.end_lateral_idx - scan.start_lateral_idx) * Octants[octant_i].lateral_step >= 0

\* ----------------------------------------------------------------------- C18
\* C18: every frame a row scan pushes has depth one more than the frame being
\* scanned; no row of depth greater than distance is scanned, so no frame of
\* depth greater than distance + 1 is ever on the stack; and every scanned row
\* lies inside the grid along the depth axis, at the frame's depth from the eye.
C18_DepthBound ==
    /\ \A v \in Visits :
        /\ \A k \in DOMAIN v.pushed : v.pushed[k].depth = v.depth + 1
        /\ 1 <= v.depth /\ v.depth <= distance
        /\ v.coord \in WorldCells
        /\ LET o == Octants[v.octant]
           IN  v.coord[o.depth_idx] = eye[o.depth_idx] + v.depth * o.depth_step
    /\ \A f \in StackFrames : 1 <= f.depth /\ f.depth <= distance + 1
    /\ pc = "scan" =>
        /\ frame.depth <= distance
        /\ scan.depth_idx >= 0
        /\ scan.depth_idx <= (IF Octants[octant_i].depth_idx = 1 THEN world.width ELSE world.height) - 1

\* a frame of depth distance + 1, pushed by a row at the full view distance,
\* is on the stack waiting to be popped and dropped
C18_Witness ==
    /\ distance >= 2
    /\ pc = "pop"
    /\ \E f \in StackFrames : f.depth = distance + 1
    /\ \E v \in Visits : v.depth = distance /\ v.pushed /= << >>

\* ----------------------------------------------------------------------- C19
\* the octant table in the order of the claim, as depth and lateral direction
TableOrder ==
    << <<"West", "South">>, <<"South", "West">>, <<"South", "East">>, <<"East", "South">>,
       <<"East", "North">>, <<"North", "East">>, <<"North", "West">>, <<"West", "North">> >>

\* the number of frames pushed by the row loops so far
TotalPushes ==
    Cardinality({ ik \in (DOMAIN visited) \X (1..2) : ik[2] <= Len(visited[ik[1]].pushed) })

\* the number of octants seeded so far
Seeded == IF pc \in {"idle", "eye"} THEN 0 ELSE IF pc = "octant" THEN octant_i - 1 ELSE octant_i

\* every frame seeded or pushed is on the stack or has been popped once; the
\* stack is empty when an octant is about to be seeded and when observe
\* returns; octant i scans along the i-th depth direction of the table
OctantBookkeeping ==
    /\ nframes + Len(stack) = Seeded + TotalPushes
    /\ pc \in {"idle", "eye", "octant", "done"} => stack = << >>
    /\ pc = "done" => octant_i = NUM_OCTANTS
    /\ \A i \in 1..NUM_OCTANTS :
        /\ OctantDirs[i] = TableOrder[i]
        /\ Octants[i].depth_idx = (IF TableOrder[i][1] \in {"East", "West"} THEN 1 ELSE 2)
        /\ Octants[i].depth_step = (IF TableOrder[i][1] \in {"East", "South"} THEN 1 ELSE -1)
        /\ Octants[i].lateral_step = (IF TableOrder[i][2] \in {"East", "South"} THEN 1 ELSE -1)
    /\ \A i, j \in DOMAIN visited : i <= j => visited[i].octant <= visited[j].octant

\* the steps of the octant loop and of the frame stack
OctantStep ==
    /\ pc = "eye" => octant_i' = 1
    /\ (pc = "octant" /\ pc' /= "octant") =>
            /\ stack' = << FrameNew(1, RatZero, RatOne, VisOne) >>
            /\ octant_i' = octant_i
    /\ (pc = "pop" /\ stack /= << >>) =>
            /\ frame' = stack[Len(stack)]
            /\ stack' = SubSeq(stack, 1, Len(stack) - 1)
            /\ nframes' = nframes + 1
    /\ (pc = "pop" /\ stack = << >>) =>
            \/ pc' = "octant" /\ octant_i' = octant_i + 1
            \/ pc' = "done" /\ octant_i = NUM_OCTANTS
    /\ pc = "scan" => Len(stack') >= Len(stack) /\ SubSeq(stack', 1, Len(stack)) = stack

\* C19: observe processes the 8 octants one after another in the fixed table
\* order; each octant starts from a stack holding only the seed frame (depth 1,
\* min_slope 0, max_slope 1, visibility 1); frames are popped last in, first
\* out, and each pushed frame is popped exactly once; the stack is empty before
\* the next octant is seeded.
C19_OctantOrderAndStack == []OctantBookkeeping /\ [][OctantStep]_vars

\* in a later octant two frames pushed by one row are on the stack, after
\* pushed frames of this observation have already been popped
C19_Witness ==
    /\ pc = "pop" /\ octant_i >= 2
    /\ Len(stack) >= 2
    /\ nframes > octant_i + 2
    /\ TotalPushes >= 4

\* ----------------------------------------------------------------------- C20
\* the update_cell calls of a log, in order
UpdateCellsOf(cs) == SelectSeq(cs, LAMBDA c : c.op = "update_cell")

\* C20: a ShadowcastEnv is reusable: env.stack is empty when observe returns
\* and so when the next call begins, as on a fresh env; a second call on the
\* same env with the same world, eye and distance makes the same sequence of
\* update_cell calls as the first call made on the fresh env, after its own
\* set_time; and each call returns the metadata of its own update_cell calls.
C20_EnvReusable ==
    /\ pc \in {"idle", "done"} => stack = << >>
    /\ pc = "done" => metadata = returned
    /\ (pc = "done" /\ ncalls = 1 /\ turns = 0) =>
            /\ UpdateCellsOf(calls) = UpdateCellsOf(previous_calls)
            /\ Len(calls) = Len(previous_calls)
            /\ calls[1] = [op |-> "set_time", time |-> time]

\* a second call on the same env is over; like the first it scanned rows past
\* a non-zero cell and reported cells in several octants
C20_Witness ==
    /\ pc = "done" /\ ncalls = 1 /\ turns = 0
    /\ ~AllTransparent
    /\ Len(UpdateCellsOf(previous_calls)) >= 4
    /\ TotalPushes >= 9
    /\ metadata = {"seen"}

\* ----------------------------------------------------------------- C21
\* two octants lie side by side: they share their depth axis (same depth
\* direction, opposite lateral directions) or their diagonal (each one's
\* depth direction is the other's lateral direction)
GeometricallyAdjacent(a, b) ==
    \/ a[1] = b[1] /\ a[2] = CardinalOpposite(b[2])
    \/ a[1] = b[2] /\ a[2] = b[1]

CyclicNext(i) == (i % NUM_OCTANTS) + 1

PerpendicularPairs == { p \in Cardinals \X Cardinals : VectorIndexFromCard(p[1]) /= VectorIndexFromCard(p[2]) }

VecAdd(a, b) == <<a[1] + b[1], a[2] + b[2]>>

\* the rounding the row in progress was started and ended with
RowRoundedBy(start, end) ==
    /\ scan.start_lateral_idx =
         RoundTypeRound(start, LateralAt(limits.eye_lateral_pos2, frame.min_slope,
                                         2 * frame.depth - 1, Octants[octant_i].lateral_step))
    /\ scan.end_lateral_idx =
         Min(Max(RoundTypeRound(end, LateralAt(limits.eye_lateral_pos2, frame.max_slope,
                                               2 * frame.depth + 1, Octants[octant_i].lateral_step)),
                 limits.lateral_min), limits.lateral_max)

\* C21: the octant table of ShadowcastEnv::new is well formed.  Building it
\* never panics; its 8 (depth, lateral) pairs are pairwise distinct,
\* perpendicular and are all 8 such pairs; cyclically consecutive octants are
\* geometrically adjacent; lateral_step is +1 or -1; lateral_step +1 rounds
\* the start with Floor and the end with ExclusiveFloor, -1 the reverse (and
\* every row in progress was rounded so); opacity_increase_corner is the
\* (depth, opposite-lateral) corner and opacity_decrease_corner the
\* (opposite-depth, opposite-lateral) corner.
C21_OctantTableWellFormed ==
    /\ Len(OctantDirs) = NUM_OCTANTS
    /\ \A i \in 1..NUM_OCTANTS : ~OctantNewPanics(OctantDirs[i][1], OctantDirs[i][2])
    /\ \A i, j \in 1..NUM_OCTANTS : i /= j => OctantDirs[i] /= OctantDirs[j]
    /\ { OctantDirs[i] : i \in 1..NUM_OCTANTS } = PerpendicularPairs
    /\ \A i \in 1..NUM_OCTANTS : GeometricallyAdjacent(OctantDirs[i], OctantDirs[CyclicNext(i)])
    /\ \A i \in 1..NUM_OCTANTS :
          LET o == Octants[i]
              d == OctantDirs[i][1]
              l == OctantDirs[i][2]
          IN  /\ o.lateral_step \in {1, -1}
              /\ o.depth_step \in {1, -1}
              /\ o.depth_idx /= o.lateral_idx
              /\ o.lateral_step = 1 => o.round_start = "Floor" /\ o.round_end = "ExclusiveFloor"
              /\ o.lateral_step = -1 => o.round_start = "ExclusiveFloor" /\ o.round_end = "Floor"
              /\ o.opacity_increase_corner \in {"NorthEast", "SouthEast", "SouthWest", "NorthWest"}
              /\ o.opacity_decrease_corner \in {"NorthEast", "SouthEast", "SouthWest", "NorthWest"}
              /\ OrdinalVector(o.opacity_increase_corner)
                    = VecAdd(CardinalVector(d), CardinalVector(CardinalOpposite(l)))
              /\ OrdinalVector(o.opacity_decrease_corner)
                    = VecAdd(CardinalVector(CardinalOpposite(d)), CardinalVector(CardinalOpposite(l)))
    /\ pc = "scan" =>
          IF Octants[octant_i].lateral_step = 1
          THEN RowRoundedBy("Floor", "ExclusiveFloor")
          ELSE RowRoundedBy("ExclusiveFloor", "Floor")

\* a row is in progress in the last octant of the table, one that steps
\* backwards, and the two rounding rules give different ends for it
C21_Witness ==
    /\ pc = "scan"
    /\ octant_i = NUM_OCTANTS
    /\ Octants[octant_i].lateral_step = -1
    /\ ~RowRoundedBy("Floor", "ExclusiveFloor")

\* ----------------------------------------------------------------- C22
\* C22: RoundType::Floor returns the greatest integer <= x and
\* RoundType::ExclusiveFloor the greatest integer < x (floor(x) when x is not
\* an integer, x - 1 when it is), for every x: at the integers, just above
\* and just below them, and at negative values.
C22_RoundingRules ==
    rounded /= Nothing =>
        LET v == rounded.value IN
        IF rounded.round_type = "Floor"
        THEN v * F64One <= x /\ (v + 1) * F64One > x
        ELSE v * F64One < x /\ (v + 1) * F64One >= x

\* ----------------------------------------------------------------- C23
\* C23: for every distance a u32 holds, the cutoff scan compares squared
\* distances against is the square of distance: distance * distance does not
\* overflow the u32 and does not turn negative as an i32, so a call with a
\* larger distance reports every cell the call with the smaller one reported.
C23_CutoffIsSquare ==
    /\ pc \in {"pop", "scan", "done", "panic"} =>
          ~DistanceSquaredOverflows(distance) /\ DistanceSquared(distance) >= 0
    /\ pc = "done" /\ ncalls = 1 => previous_reported \subseteq Reported(calls)

\* ----------------------------------------------------------------- C24
\* C24: with cell opacities in [0,1], every frame on the stack has a
\* visibility greater than 0 and at most 1, and a pushed frame's visibility
\* is at most the visibility of the frame whose row produced it; so no row
\* is scanned under an inherited visibility of 0, and in an all-transparent
\* grid every frame has visibility 1.
C24_VisibilityInvariant ==
    /\ \A c \in WorldCells : world.opacity[c] \in 0..VisOne
    /\ \A f \in StackFrames : f.visibility > 0 /\ f.visibility <= VisOne
    /\ \A v \in Visits :
          /\ v.inherited > 0 /\ v.inherited <= VisOne
          /\ \A k \in DOMAIN v.pushed :
                v.pushed[k].visibility > 0 /\ v.pushed[k].visibility <= v.inherited
    /\ pc = "scan" => frame.visibility > 0
    /\ AllTransparent =>
          /\ \A f \in StackFrames \cup PushedFrames : f.visibility = VisOne
          /\ \A v \in Visits : v.inherited = VisOne

\* a row is being scanned under the visibility 0.2 that two cells of opacity
\* 0.4 leave, it has pushed a frame of that visibility which is on the stack,
\* and an earlier row under 0.6 pushed the frame of this row
C24_Witness ==
    /\ pc = "scan" /\ frame.visibility = 1
    /\ \E f \in StackFrames : f.visibility = 1 /\ f.depth = frame.depth + 1
    /\ \E v \in Visits :
          /\ v.inherited = 3
          /\ \E k \in DOMAIN v.pushed : v.pushed[k].visibility = 1

\* ----------------------------------------------------------------- C25
\* the serials of the reactions in a list
Serials(rs) == { rs[i].serial : i \in DOMAIN rs }

\* the reactions the policy accepted
Accepted == { i \in DOMAIN processed : processed[i].accepted }

\* what one iteration of the commit loop does to the state
CommitStepRule ==
    (turn_pc = "commit" /\ processed' /= processed) =>
        LET e == processed'[Len(processed')] IN
        /\ Len(processed') = Len(processed) + 1
        /\ e.serial >= 1
        /\ \A n \in Serials(reactions) : n <= e.serial
        /\ e.serial \notin Serials(reactions')
        /\ \A n \in Serials(reactions') \ Serials(reactions) : n > e.serial
        /\ e.accepted =>
              /\ turn_time' = turn_time + 1
              /\ Len(spatial_hash') = Len(spatial_hash) + 1
              /\ spatial_hash'[Len(spatial_hash')].time = turn_time + 1
              /\ e.action \in spatial_hash'[Len(spatial_hash')].change
              /\ Len(entity_store') = Len(entity_store) + 1
              /\ entity_store'[Len(entity_store')] = spatial_hash'[Len(spatial_hash')].change
        /\ ~e.accepted =>
              /\ change' = {}
              /\ UNCHANGED << turn_time, entity_store, spatial_hash >>

\* the list holds only reactions of this commit, and the time has grown by
\* one for each accepted change
CommitBookkeeping ==
    /\ \A i \in DOMAIN processed : processed[i].action /= "Stale"
    /\ turn_pc = "commit" => \A i \in DOMAIN reactions : reactions[i].action /= "Stale"
    /\ turn_time = entry.time + Cardinality(Accepted)
    /\ Len(spatial_hash) = Cardinality(Accepted) /\ Len(entity_store) = Cardinality(Accepted)
    /\ (turn_pc = "returned" /\ resolution = "Ok(Reschedule)") => reactions = << >>

\* C25: CommitEnv::commit clears the reaction list before it queues the
\* initial action, so reactions an earlier turn left are never executed;
\* reactions are processed last in, first out; for an accepted change time
\* grows by exactly 1 before the spatial hash is updated and the change is
\* committed; for a rejected change the change is cleared and time, entity
\* store and spatial hash stay as they were; when commit returns the list is
\* empty and time has grown by the number of accepted changes.
C25_CommitLoop == []CommitBookkeeping /\ [][CommitStepRule]_vars

\* commit has returned from a list that held stale reactions, after it
\* processed a reaction the policy queued before an older one, accepting
\* some and rejecting others
C25_Witness ==
    /\ turn_pc = "returned" /\ resolution = "Ok(Reschedule)"
    /\ entry.reactions /= << >>
    /\ Len(processed) = MaxReactions
    /\ \E i, j \in DOMAIN processed : i < j /\ processed[i].serial > processed[j].serial
    /\ Accepted /= {} /\ Accepted /= DOMAIN processed

IndexInGrid ==
    /\ ~(index.signed /\ (BytesNegative(index.x) \/ BytesNegative(index.y)))
    /\ BytesLess(index.x, Usize(grid.width))
    /\ BytesLess(index.y, Usize(grid.height))

\* C27: for a StaticGrid of any width and height, get(idx) and get_mut(idx)
\* return a cell if and only if 0 <= x < width and 0 <= y < height, for
\* unsigned and for signed index pairs: the cell stored at y * width + x, and
\* never another cell for a y >= height or a negative coordinate; and
\* contains(idx) agrees with get(idx).is_some().
C27_GetIffInGrid ==
    got /= Nothing =>
        IF got.op = "contains"
        THEN got.value = [is |-> IndexInGrid]
        ELSE got.value = IF IndexInGrid
                         THEN [some |-> BytesToInt(index.y) * grid.width + BytesToInt(index.x)]
                         ELSE Nothing

\* ----------------------------------------------------------------- C28
\* C28: for every width and height, 0 included, coord_iter yields exactly
\* width * height coordinates and then ends: each (x, y) with x < width and
\* y < height once, in row-major order, so that the i-th coordinate has
\* wrap_to_index i and pairs with the i-th item of iter() and iter_mut().
C28_CoordIterRowMajor ==
    /\ Len(yielded) <= grid.width * grid.height
    /\ \A i \in DOMAIN yielded :
          /\ yielded[i][1] < grid.width /\ yielded[i][2] < grid.height
          /\ IdxWrapToIndex([x |-> Usize(yielded[i][1]), y |-> Usize(yielded[i][2]),
                             signed |-> FALSE], grid.width) = Usize(i - 1)
          /\ i <= Len(grid.items) /\ grid.items[i] = yielded[i][2] * grid.width + yielded[i][1]
    /\ iter_done => Len(yielded) = grid.width * grid.height

====
